---- MODULE Spec2Model ----
(***************************************************************************)
(* Model of the gamepad pendant's input translation engine (class Actions  *)
(* of actions.ts), driven by the events of GamepadController (console.ts). *)
(*                                                                         *)
(* Numbers.  Axis values are held in hundredths of full scale (ONE = 1.0). *)
(* Distances are held in units of 1/MM millimetre, where MM is the number  *)
(* of units in a millimetre; MM = 60000 / JOG_INTERVAL makes every jog     *)
(* velocity and creep distance of the source an integer, and every product *)
(* of a stick value (in hundredths) with a jog velocity an integer too.    *)
(***************************************************************************)
EXTENDS Integers, Sequences, FiniteSets, TLC

\* ------------------------------------------------------------------------
\* Bounds of the model.
\* ------------------------------------------------------------------------
MaxHeld == 3
MaxDevices == 1
MaxTimers == 2
MaxFields == 3

\* ------------------------------------------------------------------------
\* Constants of actions.ts.
\* ------------------------------------------------------------------------
ONE == 100
DEADRANGE == 10
JOG_INTERVAL == 100
CREEP_INTERVAL == 250
MM == 60000 \div JOG_INTERVAL
VXY_LOW == (300 * JOG_INTERVAL * MM) \div 60000
VXY_MED == (3000 * JOG_INTERVAL * MM) \div 60000
CXY_LOW == MM \div 2
CXY_MED == MM
VZ_LOW == (250 * JOG_INTERVAL * MM) \div 60000
VZ_MED == (500 * JOG_INTERVAL * MM) \div 60000
CZ_LOW == MM \div 10
CZ_MED == MM

\* ------------------------------------------------------------------------
\* The logical names of the controller mapping and the snapshot type.
\* ------------------------------------------------------------------------
ModifierButtons ==
  {"KEYCODE_BUTTON_L1", "KEYCODE_BUTTON_R1", "KEYCODE_BUTTON_LTRIGGER",
   "KEYCODE_BUTTON_RTRIGGER", "KEYCODE_HOME"}

ThumbButtons == {"KEYCODE_BUTTON_THUMBL", "KEYCODE_BUTTON_THUMBR"}

CommandButtons ==
  {"KEYCODE_BUTTON_A", "KEYCODE_BUTTON_B", "KEYCODE_BUTTON_X",
   "KEYCODE_BUTTON_Y", "KEYCODE_BACK", "KEYCODE_BUTTON_START"}

ButtonNames == ModifierButtons \cup ThumbButtons \cup CommandButtons

TriggerAxes == {"AXIS_LTRIGGER", "AXIS_RTRIGGER"}

HatAxes == {"AXIS_HAT_X", "AXIS_HAT_Y"}

StickAxes == {"AXIS_X", "AXIS_Y", "AXIS_Z", "AXIS_RZ"}

AxisNames == TriggerAxes \cup HatAxes \cup StickAxes

\* The values an axis is driven to: a trigger is released, half pulled or
\* fully pulled, a hat is -1, 0 or 1, a stick is at rest, on the edge of the
\* dead zone, or fully negative.
TriggerValues == {0, ONE \div 2, ONE}

HatValues == {-ONE, 0, ONE}

StickValues == {-ONE, 0, DEADRANGE}

AxisValues(n) ==
  IF n \in TriggerAxes THEN TriggerValues
  ELSE IF n \in HatAxes THEN HatValues
  ELSE StickValues

\* GamepadState: every axis and button of the device, under its logical name.
Neutral ==
  [axisStates |-> [n \in AxisNames |-> 0],
   buttonStates |-> [n \in ButtonNames |-> 0]]

\* `{} as GamepadState`: the object with no keys.
EmptyState == [n \in {} |-> 0]

\* new XYZCoords
XYZCoords == [move_x_axis |-> 0, move_y_axis |-> 0, move_z_axis |-> 0]

\* How many inputs of a snapshot are away from rest.
Held(state) ==
  Cardinality({n \in ButtonNames : state.buttonStates[n] # 0})
  + Cardinality({n \in AxisNames : state.axisStates[n] # 0})

\* ------------------------------------------------------------------------
\* State.
\* ------------------------------------------------------------------------
VARIABLES
  numDevices,        \* gamepad.numDevices(): attached controllers
  pad,               \* the attached controller's state, as deviceStateForID reports it
  gamepadState,      \* Actions.gamepadState
  axisInstructions,  \* Actions.axisInstructions
  thumbLeftActive,   \* Actions.thumbLeftActive
  thumbRightActive,  \* Actions.thumbRightActive
  timers,            \* pending timeouts: handle -> delay, 0 when not pending
  jogTimer,          \* Actions.jogTimer: the handle setTimeout last returned
  creepTimer,        \* the pending timeout a creep scheduled, 0 when there is none
  calls,             \* the Command Abstraction Layer calls of the last step, in order
  lastOp,            \* the handler that ran in the last step
  lastId,            \* the id argument of the last onUse ("" for another handler)
  zProbeRecord,      \* GcodeShapeoko.zProbeRecord
  inbox,             \* the 'serialport:read' message delivered and not yet handled
  options,           \* the program's options
  connector,         \* Connector: socket, serialConnected and the serial interval
  emitted,           \* the messages emitted on the socket in the last step, in order
  process,           \* the process: its phase, exit status and gcodeSender
  hold               \* history: how the present hold of each D-pad axis began

vars ==
  <<numDevices, pad, gamepadState, axisInstructions, thumbLeftActive,
    thumbRightActive, timers, jogTimer, creepTimer, calls, lastOp, lastId,
    zProbeRecord, inbox, options, connector, emitted, process, hold>>

Handles == 1..MaxTimers

\* ------------------------------------------------------------------------
\* Timers of the event loop.
\* ------------------------------------------------------------------------
Pending(tm) == {h \in Handles : tm[h] # 0}

\* The handle a new timeout gets: the least one that is not pending and is
\* not the handle `not`, and 0 when there is none.  A timeout that replaces
\* a cancelled one is a new timeout, so it does not get the handle of the
\* one cancelled.
FreeHandle(tm, not) ==
  LET free == (Handles \ Pending(tm)) \ {not}
  IN  IF free = {} THEN 0
      ELSE CHOOSE h \in free : \A g \in free : h <= g

\* The timers as a handler sees them: timers, jogTimer and creepTimer, and
\* the handle the handler has cancelled, 0 when it has cancelled none.
TimerState(tm, jt, ct) ==
  [timers |-> tm, jogTimer |-> jt, creepTimer |-> ct, cleared |-> 0]

\* clearTimeout(this.jogTimer)
ClearJogTimer(ts) ==
  IF ts.jogTimer \notin Handles THEN ts
  ELSE [ts EXCEPT !.timers[ts.jogTimer] = 0,
                  !.creepTimer = IF ts.creepTimer = ts.jogTimer THEN 0 ELSE ts.creepTimer,
                  !.cleared = IF ts.timers[ts.jogTimer] # 0 THEN ts.jogTimer ELSE ts.cleared]

\* this.jogTimer = setTimeout(this.jogFunction.bind(this), delay)
SetJogTimer(ts, delay) ==
  LET h == FreeHandle(ts.timers, ts.cleared)
  IN  IF h = 0 THEN [ts EXCEPT !.jogTimer = 0]
      ELSE [timers |-> [ts.timers EXCEPT ![h] = delay],
            jogTimer |-> h,
            creepTimer |-> IF delay = CREEP_INTERVAL THEN h ELSE ts.creepTimer,
            cleared |-> 0]

\* ------------------------------------------------------------------------
\* jogGantry: the relative jog call with its computed feedrate.
\* ------------------------------------------------------------------------
RECURSIVE SqrtIter(_, _)
SqrtIter(n, r) ==
  CHOOSE root \in {IF s >= r THEN r ELSE SqrtIter(n, s) : s \in {(r + n \div r) \div 2}} : TRUE

\* Math.sqrt, rounded down to a whole unit.
Sqrt(n) == IF n = 0 THEN 0 ELSE SqrtIter(n, n)

Call(op) == [op |-> op, x |-> 0, y |-> 0, z |-> 0, mmPerMin |-> 0]

\* JogGantry with the feedrate per second.
JogGantry_PerSecond(x, y, z) ==
  LET dist == Sqrt(x * x + y * y + z * z)
      speed == (dist * (1000 \div JOG_INTERVAL)) \div MM
  IN  [op |-> "moveGantryJogToXYZ", x |-> x, y |-> y, z |-> z, mmPerMin |-> speed]

JogGantry(x, y, z) ==
  LET dist == Sqrt(x * x + y * y + z * z)
      speed == (dist * (60000 \div JOG_INTERVAL)) \div MM
  IN  [op |-> "moveGantryJogToXYZ", x |-> x, y |-> y, z |-> z, mmPerMin |-> speed]

\* ------------------------------------------------------------------------
\* Options (console.ts): the controller type is a sequence of characters.
\* ------------------------------------------------------------------------
\* An actions map with no trigger: the file options give none.
NoMap == [trigger \in {} |-> 0]

\* Number(this.options.zProbeThickness), the default of the command line.
zProbeThickness == 20 * 1000

DefaultOptions ==
  [controllerType |-> <<"g", "r", "b", "l">>, simulate |-> FALSE, actionsMap |-> NoMap]

\* ------------------------------------------------------------------------
\* Connector (connector.ts).  socket is "none" before the first io.connect,
\* "listening" for a socket connectServer has subscribed its handlers to,
\* "bare" for the socket the 'error' and 'close' handlers put in its place
\* (no handler is subscribed to it) and "destroyed" after socket.destroy().
\* serial is the interval of openSerial: current is the one this.serial
\* names, leaked is one that openSerial has overwritten without clearing.
\* ------------------------------------------------------------------------
NewConnector ==
  [socket |-> "none", serialConnected |-> FALSE,
   serial |-> [current |-> FALSE, leaked |-> FALSE]]

\* OpenSerial starting the interval in simulate mode too.
OpenSerial_NoSimulate(c, o) ==
  [c EXCEPT !.serial = [current |-> TRUE, leaked |-> c.serial.current \/ c.serial.leaked]]

\* Connector.openSerial()
OpenSerial(c, o) ==
  IF o.simulate THEN c
  ELSE [c EXCEPT !.serial = [current |-> TRUE,
                             leaked |-> c.serial.current \/ c.serial.leaked]]

\* clearInterval(this.serial)
ClearSerial(c) == [c EXCEPT !.serial.current = FALSE]

\* Connector.connectServer()
ConnectServer(c, o) ==
  IF o.simulate THEN OpenSerial(c, o)
  ELSE [c EXCEPT !.socket = "listening"]

\* gamepadController.on('attach'), with n devices attached
AttachConnector(c, o, n) == IF n = 1 THEN ConnectServer(c, o) ELSE c

\* gamepadController.on('remove'), with n devices attached
RemoveConnector(c, n) ==
  IF n < 1 /\ c.socket # "none"
  THEN [ClearSerial(c) EXCEPT !.socket = "destroyed", !.serialConnected = FALSE]
  ELSE c

\* ------------------------------------------------------------------------
\* GcodeSender (gcode-sender.ts) and its dialects: the sendMessage calls of
\* each operation, in order.  A message is the arguments of sendMessage;
\* the data of a jog is held as its numbers rather than as text.
\* ------------------------------------------------------------------------
Command(directive) == [event |-> "command", directive |-> directive, data |-> "undefined"]

Gcode(data) == [event |-> "command", directive |-> "gcode", data |-> data]

\* x.toFixed(4) of a distance in units of 1/MM mm: ten-thousandths of a
\* millimetre, rounded to the nearest.
ToFixed4(x) ==
  LET n == (IF x < 0 THEN 0 - x ELSE x) * 10000
      r == (2 * n + MM) \div (2 * MM)
  IN  IF x < 0 THEN 0 - r ELSE r

\* The G-code of a jog: the words before the coordinates as text, the
\* coordinates, and the feedrate in hundredths of the unit of mmPerMin.
JogGcode(words, call, percent) ==
  [event |-> "command", directive |-> "gcode", data |-> words,
   x |-> ToFixed4(call.x), y |-> ToFixed4(call.y), z |-> ToFixed4(call.z),
   f |-> call.mmPerMin * percent]

\* G0 G53 Z${ZSAFEPOS} F${ZSAFEV}
SafeZ == Gcode("G0 G53 Z-5 F500")

\* GcodeSender.moveGantryRelative
MoveGantryRelative(call) ==
  <<Gcode("G21"), JogGcode("G91 G0", call, 100), Gcode("G90")>>

\* GrblJog without the return to absolute coordinates.
GrblJog_NoRestore(call) ==
  <<Gcode("G21"), Gcode("G91"), JogGcode("$J=", call, 98)>>

\* GcodeGrbl.moveGantryJogToXYZ (GcodeShapeoko has the same override)
GrblJog(call) ==
  <<Gcode("G21"), Gcode("G91"), JogGcode("$J=", call, 98), Gcode("G90")>>

\* Number(this.options.zProbeThickness) + 0.001, in thousandths
ProbeOffset == zProbeThickness + 1

\* PerformProbing setting the offset before the probe move.
PerformProbing_OffsetFirst ==
  <<Gcode("G91"),
    [event |-> "command", directive |-> "gcode", data |-> "G10 L20 P1 Z", z |-> ProbeOffset],
    Gcode("G38.2 Z-15.001 F120"), Gcode("G90"),
    Gcode("G91"), Gcode("G0 Z3"), Gcode("G90")>>

\* GcodeSender.performProbing
PerformProbing ==
  <<Gcode("G91"), Gcode("G38.2 Z-15.001 F120"), Gcode("G90"),
    [event |-> "command", directive |-> "gcode", data |-> "G10 L20 P1 Z", z |-> ProbeOffset],
    Gcode("G91"), Gcode("G0 Z3"), Gcode("G90")>>

\* The operations the engine calls that gcode-sender.ts does not define:
\* each sends its G-code through sendMessage.
UnlistedMessages(call) == <<Gcode(call.op)>>

\* The operations of the base class.
BaseMessages(call) ==
  CASE call.op = "controllerCyclestart" -> <<Command("cyclestart")>>
    [] call.op = "controllerFeedhold" -> <<Command("feedhold")>>
    [] call.op = "controllerPause" -> <<Command("pause")>>
    [] call.op = "controllerReset" -> <<Command("reset")>>
    [] call.op = "controllerResume" -> <<Command("resume")>>
    [] call.op = "controllerStart" -> <<Command("start")>>
    [] call.op = "controllerStop" -> <<Command("stop")>>
    [] call.op = "controllerUnlock" -> <<Command("unlock")>>
    [] call.op = "coolantFloodOn" -> <<Gcode("M8")>>
    [] call.op = "coolantMistOn" -> <<Gcode("M7")>>
    [] call.op = "coolantOff" -> <<Gcode("M9")>>
    [] call.op = "moveGantryHome" -> <<SafeZ, Gcode("G30")>>
    [] call.op = "moveGantryJogToXYZ" -> MoveGantryRelative(call)
    [] call.op = "moveGantryRelative" -> MoveGantryRelative(call)
    [] call.op = "moveGantryReturn" -> <<SafeZ, Gcode("G28")>>
    [] call.op = "moveGantryWCSHome" -> <<SafeZ, Gcode("G0 G90 G54 X0 Y0")>>
    [] call.op = "moveGantryZProbePos" -> <<SafeZ, Gcode("G0 G90 G55 X0 Y0")>>
    [] call.op = "moveZedZero" -> <<SafeZ>>
    [] call.op = "performHoming" -> <<Command("homing")>>
    [] call.op = "performProbing" -> PerformProbing
    [] call.op = "recordGantryReturn" -> <<Gcode("G28.1")>>
    [] call.op = "recordGantryZProbePos" -> <<Gcode("G10 P2 L20 X0 Y0 Z0")>>
    [] call.op = "recordGantryWCSHome" -> <<Gcode("G10 P1 L20 X0 Y0 Z0")>>
    [] call.op = "recordGantryHome" -> <<Gcode("G30.1")>>
    [] call.op = "spindleOff" -> <<Gcode("M5")>>
    [] call.op = "spindleOn" ->
         <<[event |-> "command", directive |-> "gcode", data |-> "M3 S", speed |-> call.speed]>>
    [] OTHER -> UnlistedMessages(call)

\* ShapeokoZProbePos without the test of success.
ShapeokoZProbePos_Always(rec) ==
  <<Gcode("G53 G0 G90 Zundefined"),
    [event |-> "command", directive |-> "gcode", data |-> "G54 G0 G90 X Y",
     x |-> rec.x, y |-> rec.y]>>

\* GcodeShapeoko.moveGantryZProbePos: this.zsafepos is not defined.
ShapeokoZProbePos(rec) ==
  IF rec.success
  THEN <<Gcode("G53 G0 G90 Zundefined"),
         [event |-> "command", directive |-> "gcode", data |-> "G54 G0 G90 X Y",
          x |-> rec.x, y |-> rec.y]>>
  ELSE <<>>

\* The operations as the dialect `sender` carries them out.
Messages(sender, call) ==
  IF sender \in {"GcodeGrbl", "GcodeShapeoko"} /\ call.op = "moveGantryJogToXYZ"
  THEN GrblJog(call)
  ELSE IF sender = "GcodeShapeoko" /\ call.op = "moveGantryZProbePos"
  THEN ShapeokoZProbePos(zProbeRecord)
  ELSE IF sender = "GcodeMarlin" /\ call.op = "performHoming" THEN <<Gcode("G28 X Y")>>
  ELSE IF sender = "GcodeMarlin" /\ call.op = "performZProbing" THEN <<Gcode("M28 Z")>>
  ELSE BaseMessages(call)

RECURSIVE AllMessages(_, _)
AllMessages(sender, cs) ==
  IF cs = <<>> THEN <<>>
  ELSE Messages(sender, Head(cs)) \o AllMessages(sender, Tail(cs))

\* SendMessage emitting whether or not the serial port is connected.
SendMessage_IgnoreSerial(c, o, msgs) == IF ~o.simulate THEN msgs ELSE <<>>

\* GcodeSender.sendMessage for each of msgs: what is emitted on the socket;
\* the rest is only logged.
SendMessage(c, o, msgs) ==
  IF ~o.simulate /\ c.serialConnected THEN msgs ELSE <<>>

\* What the operations cs emit on the socket.
SocketEmit(c, o, sender, cs) ==
  IF cs = <<>> THEN <<>> ELSE SendMessage(c, o, AllMessages(sender, cs))

\* ------------------------------------------------------------------------
\* onUse: the modifier states of a snapshot.
\* ------------------------------------------------------------------------
Truthy(v) == v # 0

deadmanSlow(b) ==
  Truthy(b["KEYCODE_BUTTON_L1"]) \/ Truthy(b["KEYCODE_BUTTON_R1"])

\* deadmanFast reading KEYCODE_BUTTON_R1 too.
deadmanFast_WithR1(a, b) ==
  \/ Truthy(b["KEYCODE_BUTTON_R1"])
  \/ Truthy(b["KEYCODE_BUTTON_LTRIGGER"])
  \/ Truthy(b["KEYCODE_BUTTON_RTRIGGER"])
  \/ a["AXIS_LTRIGGER"] = ONE
  \/ a["AXIS_RTRIGGER"] = ONE

deadmanFast(a, b) ==
  \/ Truthy(b["KEYCODE_BUTTON_LTRIGGER"])
  \/ Truthy(b["KEYCODE_BUTTON_RTRIGGER"])
  \/ a["AXIS_LTRIGGER"] = ONE
  \/ a["AXIS_RTRIGGER"] = ONE

deadmanZ(slow, fast) == slow /\ fast

\* deadmanXY without `&& !deadmanZ`.
deadmanXY_NotExclusive(slow, fast, z) == slow \/ fast

deadmanXY(slow, fast, z) == (slow \/ fast) /\ ~z

shiftKey(b) == Truthy(b["KEYCODE_HOME"])

shiftKeyOnly(shift, slow, fast) == shift /\ ~slow /\ ~fast

deadmanXYOnly(xy, shift) == xy /\ ~shift

deadmanZOnly(z, shift) == z /\ ~shift

unmodified(slow, fast, shift) == ~slow /\ ~fast /\ ~shift

\* The constants onUse computes from the snapshot before anything else.
Modifiers(state) ==
  LET a == state.axisStates
      b == state.buttonStates
      slow == deadmanSlow(b)
      fast == deadmanFast(a, b)
      z == deadmanZ(slow, fast)
      xy == deadmanXY(slow, fast, z)
      shift == shiftKey(b)
  IN  [deadmanSlow |-> slow,
       deadmanFast |-> fast,
       deadmanZ |-> z,
       deadmanXY |-> xy,
       shiftKey |-> shift,
       shiftKeyOnly |-> shiftKeyOnly(shift, slow, fast),
       deadmanXYOnly |-> deadmanXYOnly(xy, shift),
       deadmanZOnly |-> deadmanZOnly(z, shift),
       unmodified |-> unmodified(slow, fast, shift)]

jogVelocity(m) == IF m.deadmanSlow THEN VXY_LOW ELSE VXY_MED

creepDist(m) == IF m.deadmanSlow THEN CXY_LOW ELSE CXY_MED

\* jogVelocityZ without the test of AXIS_HAT_X.
jogVelocityZ_Medium(a) == VZ_MED

jogVelocityZ(a) == IF Truthy(a["AXIS_HAT_X"]) THEN VZ_LOW ELSE VZ_MED

creepDistZ(a) == IF Truthy(a["AXIS_HAT_X"]) THEN CZ_LOW ELSE CZ_MED

\* The product of an axis value (hundredths of full scale) and a distance.
Times(axis, d) == (axis * d) \div ONE

Abs(v) == IF v < 0 THEN -v ELSE v

\* ------------------------------------------------------------------------
\* onUse: the stick latches.  A latch pair is [left, right].
\* ------------------------------------------------------------------------
Latches(left, right) == [left |-> left, right |-> right]

\* ToggleThumbRight without `this.thumbLeftActive = false`.
ToggleThumbRight_KeepLeft(id, state, l) ==
  IF id = "KEYCODE_BUTTON_THUMBR" /\ Truthy(state.buttonStates["KEYCODE_BUTTON_THUMBR"])
  THEN Latches(l.left, ~l.right)
  ELSE l

\* if (id === 'KEYCODE_BUTTON_THUMBR' && b.KEYCODE_BUTTON_THUMBR)
ToggleThumbRight(id, state, l) ==
  IF id = "KEYCODE_BUTTON_THUMBR" /\ Truthy(state.buttonStates["KEYCODE_BUTTON_THUMBR"])
  THEN Latches(FALSE, ~l.right)
  ELSE l

\* ToggleThumbLeft without the test of the id.
ToggleThumbLeft_AnyEvent(id, state, l) ==
  IF Truthy(state.buttonStates["KEYCODE_BUTTON_THUMBL"])
  THEN Latches(~l.left, FALSE)
  ELSE l

\* if (id === 'KEYCODE_BUTTON_THUMBL' && b.KEYCODE_BUTTON_THUMBL)
ToggleThumbLeft(id, state, l) ==
  IF id = "KEYCODE_BUTTON_THUMBL" /\ Truthy(state.buttonStates["KEYCODE_BUTTON_THUMBL"])
  THEN Latches(~l.left, FALSE)
  ELSE l

\* DpadDisablesSticks without the test of the id.
DpadDisablesSticks_AnyId(id, m, l) ==
  IF m.deadmanXY \/ m.deadmanZ THEN Latches(FALSE, FALSE) ELSE l

\* DpadDisablesSticks without its effect.
DpadDisablesSticks_Never(id, m, l) == l

\* DpadDisablesSticks testing deadmanXY alone.
DpadDisablesSticks_XYOnly(id, m, l) ==
  IF m.deadmanXY /\ id \in {"AXIS_HAT_X", "AXIS_HAT_Y"}
  THEN Latches(FALSE, FALSE)
  ELSE l

\* For safety, if the dpad is going to cause movement, disable the sticks.
DpadDisablesSticks(id, m, l) ==
  IF (m.deadmanXY \/ m.deadmanZ) /\ id \in {"AXIS_HAT_X", "AXIS_HAT_Y"}
  THEN Latches(FALSE, FALSE)
  ELSE l

LatchesAfter(id, state, m, l) ==
  DpadDisablesSticks(id, m, ToggleThumbLeft(id, state, ToggleThumbRight(id, state, l)))

\* ------------------------------------------------------------------------
\* onUse: the jog vector, one axis at a time; l is the latch pair after the
\* latch handling above.
\* ------------------------------------------------------------------------
\* MoveX outside `if (deadmanXYOnly)`.
MoveX_NoDeadman(state, m, l) ==
  LET a == state.axisStates
      dpad == IF Truthy(a["AXIS_HAT_X"]) THEN Times(a["AXIS_HAT_X"], jogVelocity(m)) ELSE 0
      left == IF l.left /\ Abs(a["AXIS_X"]) > DEADRANGE
              THEN Times(a["AXIS_X"], jogVelocity(m)) ELSE dpad
      right == IF l.right /\ Abs(a["AXIS_RZ"]) > DEADRANGE
               THEN Times(a["AXIS_RZ"], jogVelocity(m)) ELSE left
  IN  right

MoveX(state, m, l) ==
  LET a == state.axisStates
      dpad == IF Truthy(a["AXIS_HAT_X"]) THEN Times(a["AXIS_HAT_X"], jogVelocity(m)) ELSE 0
      left == IF l.left /\ Abs(a["AXIS_X"]) > DEADRANGE
              THEN Times(a["AXIS_X"], jogVelocity(m)) ELSE dpad
      right == IF l.right /\ Abs(a["AXIS_RZ"]) > DEADRANGE
               THEN Times(a["AXIS_RZ"], jogVelocity(m)) ELSE left
  IN  IF m.deadmanXYOnly THEN right ELSE 0

\* MoveY with the dead zone's edge outside the dead zone.
MoveY_EdgeOutside(state, m, l) ==
  LET a == state.axisStates
      dpad == IF Truthy(a["AXIS_HAT_Y"]) THEN -Times(a["AXIS_HAT_Y"], jogVelocity(m)) ELSE 0
      left == IF l.left /\ Abs(a["AXIS_Y"]) >= DEADRANGE
              THEN -Times(a["AXIS_Y"], jogVelocity(m)) ELSE dpad
      right == IF l.right /\ Abs(a["AXIS_Z"]) >= DEADRANGE
               THEN -Times(a["AXIS_Z"], jogVelocity(m)) ELSE left
  IN  IF m.deadmanXYOnly THEN right ELSE 0

MoveY(state, m, l) ==
  LET a == state.axisStates
      dpad == IF Truthy(a["AXIS_HAT_Y"]) THEN -Times(a["AXIS_HAT_Y"], jogVelocity(m)) ELSE 0
      left == IF l.left /\ Abs(a["AXIS_Y"]) > DEADRANGE
              THEN -Times(a["AXIS_Y"], jogVelocity(m)) ELSE dpad
      right == IF l.right /\ Abs(a["AXIS_Z"]) > DEADRANGE
               THEN -Times(a["AXIS_Z"], jogVelocity(m)) ELSE left
  IN  IF m.deadmanXYOnly THEN right ELSE 0

\* MoveZ outside `if (deadmanZOnly)`.
MoveZ_NoDeadman(state, m) ==
  LET a == state.axisStates
      hatx == IF Truthy(a["AXIS_HAT_X"]) THEN Times(a["AXIS_HAT_X"], jogVelocityZ(a)) ELSE 0
      haty == IF Truthy(a["AXIS_HAT_Y"]) /\ ~Truthy(a["AXIS_HAT_X"])
              THEN -Times(a["AXIS_HAT_Y"], jogVelocityZ(a)) ELSE hatx
  IN  haty

MoveZ(state, m) ==
  LET a == state.axisStates
      hatx == IF Truthy(a["AXIS_HAT_X"]) THEN Times(a["AXIS_HAT_X"], jogVelocityZ(a)) ELSE 0
      haty == IF Truthy(a["AXIS_HAT_Y"]) /\ ~Truthy(a["AXIS_HAT_X"])
              THEN -Times(a["AXIS_HAT_Y"], jogVelocityZ(a)) ELSE hatx
  IN  IF m.deadmanZOnly THEN haty ELSE 0

AxisVector(state, m, l) ==
  [move_x_axis |-> MoveX(state, m, l),
   move_y_axis |-> MoveY(state, m, l),
   move_z_axis |-> MoveZ(state, m)]

\* ------------------------------------------------------------------------
\* onUse: the creeps.  Each is a jogGantry call between a clearTimeout and a
\* setTimeout of CREEP_INTERVAL; they are listed in the order of the code.
\* ------------------------------------------------------------------------
\* CreepX with the distance of the continuous jog, jogVelocity.
CreepX_JogVelocity(id, state, m) ==
  LET a == state.axisStates
  IN  IF m.deadmanXYOnly /\ Truthy(a["AXIS_HAT_X"]) /\ id = "AXIS_HAT_X"
      THEN <<JogGantry(Times(a["AXIS_HAT_X"], jogVelocity(m)), 0, 0)>>
      ELSE <<>>

CreepX(id, state, m) ==
  LET a == state.axisStates
  IN  IF m.deadmanXYOnly /\ Truthy(a["AXIS_HAT_X"]) /\ id = "AXIS_HAT_X"
      THEN <<JogGantry(Times(a["AXIS_HAT_X"], creepDist(m)), 0, 0)>>
      ELSE <<>>

\* CreepY testing the id of the other D-pad axis.
CreepY_OnHatX(id, state, m) ==
  LET a == state.axisStates
  IN  IF m.deadmanXYOnly /\ Truthy(a["AXIS_HAT_Y"]) /\ id = "AXIS_HAT_X"
      THEN <<JogGantry(0, Times(-a["AXIS_HAT_Y"], creepDist(m)), 0)>>
      ELSE <<>>

CreepY(id, state, m) ==
  LET a == state.axisStates
  IN  IF m.deadmanXYOnly /\ Truthy(a["AXIS_HAT_Y"]) /\ id = "AXIS_HAT_Y"
      THEN <<JogGantry(0, Times(-a["AXIS_HAT_Y"], creepDist(m)), 0)>>
      ELSE <<>>

CreepZHatX(id, state, m) ==
  LET a == state.axisStates
  IN  IF m.deadmanZOnly /\ Truthy(a["AXIS_HAT_X"]) /\ id = "AXIS_HAT_X"
      THEN <<JogGantry(0, 0, Times(a["AXIS_HAT_X"], creepDistZ(a)))>>
      ELSE <<>>

\* CreepZHatY without the test of AXIS_HAT_X.
CreepZHatY_NoPriority(id, state, m) ==
  LET a == state.axisStates
  IN  IF m.deadmanZOnly /\ Truthy(a["AXIS_HAT_Y"]) /\ id = "AXIS_HAT_Y"
      THEN <<JogGantry(0, 0, Times(-a["AXIS_HAT_Y"], creepDistZ(a)))>>
      ELSE <<>>

CreepZHatY(id, state, m) ==
  LET a == state.axisStates
  IN  IF m.deadmanZOnly /\ Truthy(a["AXIS_HAT_Y"]) /\ ~Truthy(a["AXIS_HAT_X"])
         /\ id = "AXIS_HAT_Y"
      THEN <<JogGantry(0, 0, Times(-a["AXIS_HAT_Y"], creepDistZ(a)))>>
      ELSE <<>>

Creeps(id, state, m) ==
  CreepX(id, state, m) \o CreepY(id, state, m) \o CreepZHatX(id, state, m) \o CreepZHatY(id, state, m)

\* CreepTimer without clearTimeout(this.jogTimer).
CreepTimer_NoClear(ts) == SetJogTimer(ts, CREEP_INTERVAL)

\* The timers of one creep: clearTimeout(this.jogTimer), then
\* this.jogTimer = setTimeout(..., CREEP_INTERVAL).
CreepTimer(ts) == SetJogTimer(ClearJogTimer(ts), CREEP_INTERVAL)

RECURSIVE CreepTimers(_, _)
CreepTimers(n, ts) == IF n = 0 THEN ts ELSE CreepTimers(n - 1, CreepTimer(ts))

\* ------------------------------------------------------------------------
\* onUse: the discrete commands of the fixed table, in the order of the code.
\* ------------------------------------------------------------------------
\* ShiftedDpad without the test of shiftKeyOnly.
ShiftedDpad_Unshifted(id, state, m) ==
  LET a == state.axisStates
  IN  (IF id = "AXIS_HAT_X" /\ a["AXIS_HAT_X"] = -ONE
       THEN <<Call("recordGantryZeroWCSX")>> ELSE <<>>)
   \o (IF id = "AXIS_HAT_X" /\ a["AXIS_HAT_X"] = ONE
       THEN <<Call("recordGantryZeroWCSY")>> ELSE <<>>)
   \o (IF id = "AXIS_HAT_Y" /\ a["AXIS_HAT_Y"] = -ONE
       THEN <<Call("recordGantryZeroWCSZ")>> ELSE <<>>)
   \o (IF id = "AXIS_HAT_Y" /\ a["AXIS_HAT_Y"] = ONE
       THEN <<Call("performZProbing")>> ELSE <<>>)

ShiftedDpad(id, state, m) ==
  LET a == state.axisStates
  IN  IF ~m.shiftKeyOnly THEN <<>>
      ELSE (IF id = "AXIS_HAT_X" /\ a["AXIS_HAT_X"] = -ONE
            THEN <<Call("recordGantryZeroWCSX")>> ELSE <<>>)
        \o (IF id = "AXIS_HAT_X" /\ a["AXIS_HAT_X"] = ONE
            THEN <<Call("recordGantryZeroWCSY")>> ELSE <<>>)
        \o (IF id = "AXIS_HAT_Y" /\ a["AXIS_HAT_Y"] = -ONE
            THEN <<Call("recordGantryZeroWCSZ")>> ELSE <<>>)
        \o (IF id = "AXIS_HAT_Y" /\ a["AXIS_HAT_Y"] = ONE
            THEN <<Call("performZProbing")>> ELSE <<>>)

\* BackButton with the two operations exchanged.
BackButton_Exchanged(id, state, m) ==
  IF id # "KEYCODE_BACK" THEN <<>>
  ELSE IF m.shiftKeyOnly THEN <<Call("controllerUnlock")>>
  ELSE IF m.unmodified THEN <<Call("controllerReset")>>
  ELSE <<>>

BackButton(id, state, m) ==
  IF id # "KEYCODE_BACK" THEN <<>>
  ELSE IF m.shiftKeyOnly THEN <<Call("controllerReset")>>
  ELSE IF m.unmodified THEN <<Call("controllerUnlock")>>
  ELSE <<>>

StartButton(id, state, m) ==
  IF id # "KEYCODE_BUTTON_START" THEN <<>>
  ELSE IF m.shiftKeyOnly THEN <<Call("controllerCyclestart")>>
  ELSE IF m.unmodified THEN <<Call("controllerFeedhold")>>
  ELSE IF m.deadmanXYOnly THEN <<Call("performHoming")>>
  ELSE <<>>

\* One branch of the ABXY handling: the operation of each of A, B, X, Y, ""
\* for a noop.
ABXY(id, state, opA, opB, opX, opY) ==
  LET b == state.buttonStates
      op == IF id = "KEYCODE_BUTTON_A" /\ Truthy(b["KEYCODE_BUTTON_A"]) THEN opA
            ELSE IF id = "KEYCODE_BUTTON_B" /\ Truthy(b["KEYCODE_BUTTON_B"]) THEN opB
            ELSE IF id = "KEYCODE_BUTTON_X" /\ Truthy(b["KEYCODE_BUTTON_X"]) THEN opX
            ELSE IF id = "KEYCODE_BUTTON_Y" /\ Truthy(b["KEYCODE_BUTTON_Y"]) THEN opY
            ELSE ""
  IN  IF op = "" THEN <<>> ELSE <<Call(op)>>

ABXYButtons(id, state, m) ==
  IF m.shiftKeyOnly
  THEN ABXY(id, state, "recordGantryReturn", "", "", "recordGantryHome")
  ELSE IF m.deadmanXYOnly
  THEN ABXY(id, state, "moveGantryReturn", "moveGantryZProbePos",
            "moveGantryWCSHome", "moveGantryHome")
  ELSE IF m.unmodified
  THEN ABXY(id, state, "controllerStart", "controllerStop",
            "controllerResume", "controllerPause")
  ELSE <<>>

Dispatch(id, state, m) ==
  ShiftedDpad(id, state, m) \o BackButton(id, state, m) \o StartButton(id, state, m)
  \o ABXYButtons(id, state, m)

\* ------------------------------------------------------------------------
\* History of the D-pad.  A hold of a D-pad axis begins with the event that
\* moves the axis to -1 or 1 and ends with the event that moves it to
\* another value.  crept holds the axes whose present hold began with a
\* creep, enabled those whose present hold began under a condition that
\* moves the gantry along that axis.  The history is kept by the
\* specification that starts it; it plays no part in what onUse does.
\* ------------------------------------------------------------------------
NoHold == [tracked |-> FALSE, crept |-> {}, enabled |-> {}]

\* The event id, with the snapshot state, comes under a condition in which
\* the D-pad axis id moves the gantry: deadmanXYOnly, or deadmanZOnly for
\* AXIS_HAT_X and for AXIS_HAT_Y while AXIS_HAT_X is at rest.
MovesGantry(id, state, m) ==
  \/ m.deadmanXYOnly
  \/ m.deadmanZOnly /\ (id = "AXIS_HAT_X" \/ state.axisStates["AXIS_HAT_X"] = 0)

HoldAfter(id, state, m, cr, h) ==
  IF ~h.tracked \/ id \notin HatAxes THEN h
  ELSE IF state.axisStates[id] = 0
  THEN [h EXCEPT !.crept = @ \ {id}, !.enabled = @ \ {id}]
  ELSE [h EXCEPT !.crept = IF cr # <<>> THEN @ \cup {id} ELSE @ \ {id},
                 !.enabled = IF MovesGantry(id, state, m) THEN @ \cup {id} ELSE @ \ {id}]

\* ------------------------------------------------------------------------
\* Actions.onUse(id, state)
\* ------------------------------------------------------------------------
OnUse(id, state) ==
  \E m \in {Modifiers(state)} :
  \E l \in {LatchesAfter(id, state, m, Latches(thumbLeftActive, thumbRightActive))} :
  \E cr \in {Creeps(id, state, m)} :
  \E ts \in {CreepTimers(Len(cr), TimerState(timers, jogTimer, creepTimer))} :
      /\ ts.jogTimer \in Handles
      /\ thumbLeftActive' = l.left
      /\ thumbRightActive' = l.right
      /\ timers' = ts.timers
      /\ jogTimer' = ts.jogTimer
      /\ creepTimer' = ts.creepTimer
      /\ gamepadState' = state
      /\ axisInstructions' = AxisVector(state, m, l)
      /\ calls' = cr \o Dispatch(id, state, m)
      /\ emitted' = SocketEmit(connector, options, process.gcodeSender, calls')
      /\ lastOp' = "use"
      /\ lastId' = id
      /\ hold' = HoldAfter(id, state, m, cr, hold)
      /\ UNCHANGED <<zProbeRecord, inbox, options, connector, process>>

\* ------------------------------------------------------------------------
\* Actions.performTask (the engine with a configured actions map).  A
\* directive name is a sequence of characters.
\* ------------------------------------------------------------------------
LowerChars ==
  <<"a", "b", "c", "d", "e", "f", "g", "h", "i", "j", "k", "l", "m",
    "n", "o", "p", "q", "r", "s", "t", "u", "v", "w", "x", "y", "z">>

UpperChars ==
  <<"A", "B", "C", "D", "E", "F", "G", "H", "I", "J", "K", "L", "M",
    "N", "O", "P", "Q", "R", "S", "T", "U", "V", "W", "X", "Y", "Z">>

ToUpperCase(s) ==
  [i \in 1..Len(s) |->
     IF \E k \in 1..26 : LowerChars[k] = s[i]
     THEN UpperChars[CHOOSE k \in 1..26 : LowerChars[k] = s[i]] ELSE s[i]]

ToLowerCase(s) ==
  [i \in 1..Len(s) |->
     IF \E k \in 1..26 : UpperChars[k] = s[i]
     THEN LowerChars[CHOOSE k \in 1..26 : UpperChars[k] = s[i]] ELSE s[i]]

\* The cases of the switch, in its order, each with the operation it calls.
TaskCases ==
  <<
    [name |-> <<"C", "O", "N", "T", "R", "O", "L", "L", "E", "R", "C", "Y", "C", "L", "E", "S", "T", "A", "R", "T">>,
     op |-> "controllerCyclestart"],
    [name |-> <<"C", "O", "N", "T", "R", "O", "L", "L", "E", "R", "F", "E", "E", "D", "H", "O", "L", "D">>,
     op |-> "controllerFeedhold"],
    [name |-> <<"C", "O", "N", "T", "R", "O", "L", "L", "E", "R", "P", "A", "U", "S", "E">>,
     op |-> "controllerPause"],
    [name |-> <<"C", "O", "N", "T", "R", "O", "L", "L", "E", "R", "R", "E", "S", "E", "T">>,
     op |-> "controllerReset"],
    [name |-> <<"C", "O", "N", "T", "R", "O", "L", "L", "E", "R", "R", "E", "S", "U", "M", "E">>,
     op |-> "controllerResume"],
    [name |-> <<"C", "O", "N", "T", "R", "O", "L", "L", "E", "R", "S", "T", "A", "R", "T">>,
     op |-> "controllerStart"],
    [name |-> <<"C", "O", "N", "T", "R", "O", "L", "L", "E", "R", "S", "T", "O", "P">>,
     op |-> "controllerStop"],
    [name |-> <<"C", "O", "N", "T", "R", "O", "L", "L", "E", "R", "U", "N", "L", "O", "C", "K">>,
     op |-> "controllerUnlock"],
    [name |-> <<"C", "O", "O", "L", "A", "N", "T", "F", "L", "O", "O", "D", "O", "N">>,
     op |-> "coolantFloodOn"],
    [name |-> <<"C", "O", "O", "L", "A", "N", "T", "M", "I", "S", "T", "O", "N">>,
     op |-> "coolantMistOn"],
    [name |-> <<"C", "O", "O", "L", "A", "N", "T", "O", "F", "F">>,
     op |-> "coolantOff"],
    [name |-> <<"M", "O", "V", "E", "G", "A", "N", "T", "R", "Y", "H", "O", "M", "E">>,
     op |-> "moveGantryHome"],
    [name |-> <<"M", "O", "V", "E", "G", "A", "N", "T", "R", "Y", "R", "E", "T", "U", "R", "N">>,
     op |-> "moveGantryReturn"],
    [name |-> <<"M", "O", "V", "E", "G", "A", "N", "T", "R", "Y", "W", "C", "S", "H", "O", "M", "E">>,
     op |-> "moveGantryWCSHome"],
    [name |-> <<"M", "O", "V", "E", "G", "A", "N", "T", "R", "Y", "Z", "P", "R", "O", "B", "E", "P", "O", "S">>,
     op |-> "moveGantryZProbePos"],
    [name |-> <<"P", "E", "R", "F", "O", "R", "M", "H", "O", "M", "I", "N", "G">>,
     op |-> "performHoming"],
    [name |-> <<"P", "E", "R", "F", "O", "R", "M", "Z", "P", "R", "O", "B", "I", "N", "G">>,
     op |-> "performZProbing"],
    [name |-> <<"R", "E", "C", "O", "R", "D", "G", "A", "N", "T", "R", "Y", "Z", "E", "R", "O", "W", "C", "S", "X">>,
     op |-> "recordGantryZeroWCSX"],
    [name |-> <<"R", "E", "C", "O", "R", "D", "G", "A", "N", "T", "R", "Y", "Z", "E", "R", "O", "W", "C", "S", "Y">>,
     op |-> "recordGantryZeroWCSY"],
    [name |-> <<"R", "E", "C", "O", "R", "D", "G", "A", "N", "T", "R", "Y", "Z", "E", "R", "O", "W", "C", "S", "Z">>,
     op |-> "recordGantryZeroWCSZ"],
    [name |-> <<"R", "E", "C", "O", "R", "D", "G", "A", "N", "T", "R", "Y", "H", "O", "M", "E">>,
     op |-> "recordGantryHome"],
    [name |-> <<"R", "E", "C", "O", "R", "D", "G", "A", "N", "T", "R", "Y", "R", "E", "T", "U", "R", "N">>,
     op |-> "recordGantryReturn"],
    [name |-> <<"S", "P", "I", "N", "D", "L", "E", "O", "F", "F">>,
     op |-> "spindleOff"],
    [name |-> <<"S", "P", "I", "N", "D", "L", "E", "O", "N">>,
     op |-> "spindleOn"]
  >>

\* One case of the switch with the parameters of the entry; null stands for
\* the params of an entry that is not a list, and the TypeError of params[0]
\* on null leaves the handler before the operation is called.  A speed of
\* -1 stands for undefined, the params[0] of a list with no parameter.
TaskCalls(op, params) ==
  IF op # "spindleOn" THEN [calls |-> <<Call(op)>>, threw |-> FALSE]
  ELSE IF params = "null" THEN [calls |-> <<>>, threw |-> TRUE]
  ELSE [calls |-> <<[op |-> op, x |-> 0, y |-> 0, z |-> 0, mmPerMin |-> 0,
                     speed |-> IF Len(params) > 0 THEN params[1] ELSE 0 - 1]>>,
        threw |-> FALSE]

\* An entry of the actions map is a directive name or a list of a name and
\* parameters.  if (taskArray): the empty string is no entry.
HasEntry(map, trigger, condition) ==
  /\ trigger \in DOMAIN map
  /\ condition \in DOMAIN map[trigger]
  /\ map[trigger][condition].list \/ map[trigger][condition].task # <<>>

\* PerformTask with a default case that throws.
PerformTask_DefaultThrows(map, trigger, condition) ==
  IF ~HasEntry(map, trigger, condition) THEN [calls |-> <<>>, threw |-> FALSE]
  ELSE LET entry == map[trigger][condition]
           params == IF entry.list THEN Tail(entry.items) ELSE "null"
       IN  IF entry.list /\ entry.items = <<>> THEN [calls |-> <<>>, threw |-> TRUE]
           ELSE LET task == IF entry.list THEN entry.items[1] ELSE entry.task
                    ks == {k \in 1..Len(TaskCases) : TaskCases[k].name = ToUpperCase(task)}
                IN  IF ks = {} THEN [calls |-> <<>>, threw |-> TRUE]
                    ELSE TaskCalls(TaskCases[CHOOSE k \in ks : TRUE].op, params)

\* Actions.performTask(trigger, condition): the operations called, and
\* whether an exception left the handler.
PerformTask(map, trigger, condition) ==
  IF ~HasEntry(map, trigger, condition) THEN [calls |-> <<>>, threw |-> FALSE]
  ELSE LET entry == map[trigger][condition]
           params == IF entry.list THEN Tail(entry.items) ELSE "null"
       IN  IF entry.list /\ entry.items = <<>> THEN [calls |-> <<>>, threw |-> TRUE]
           ELSE LET task == IF entry.list THEN entry.items[1] ELSE entry.task
                    ks == {k \in 1..Len(TaskCases) : TaskCases[k].name = ToUpperCase(task)}
                IN  IF ks = {} THEN [calls |-> <<>>, threw |-> FALSE]
                    ELSE TaskCalls(TaskCases[CHOOSE k \in ks : TRUE].op, params)

\* onUse: the lookup key of the modifiers, "" while none is assigned.
Condition(m) ==
  IF m.deadmanZOnly THEN "deadmanZOnly"
  ELSE IF m.deadmanXYOnly THEN "deadmanXYOnly"
  ELSE IF m.shiftKeyOnly THEN "shiftKeyOnly"
  ELSE IF m.unmodified THEN "unmodified"
  ELSE ""

HatTrigger(id, value, condition) ==
  IF condition \in {"deadmanXYOnly", "deadmanZOnly"} THEN ""
  ELSE IF value = ONE
  THEN (IF id = "AXIS_HAT_X" THEN "AXIS_HAT_X_PLUS" ELSE "AXIS_HAT_Y_PLUS")
  ELSE IF value = -ONE
  THEN (IF id = "AXIS_HAT_X" THEN "AXIS_HAT_X_MINUS" ELSE "AXIS_HAT_Y_MINUS")
  ELSE ""

\* onUse: the trigger of the event, "" while none is assigned.
Trigger(id, state, condition) ==
  IF id \in HatAxes THEN HatTrigger(id, state.axisStates[id], condition)
  ELSE IF id \in ButtonNames /\ Truthy(state.buttonStates[id]) THEN id
  ELSE ""

\* The process runs until it exits or an exception leaves a handler.
Running == process.phase = "running"

\* Actions.onUse(id, state) with the actions map.
OnUseMapped(id, state) ==
  \E m \in {Modifiers(state)} :
  \E l \in {LatchesAfter(id, state, m, Latches(thumbLeftActive, thumbRightActive))} :
  \E cr \in {Creeps(id, state, m)} :
  \E ts \in {CreepTimers(Len(cr), TimerState(timers, jogTimer, creepTimer))} :
  \E task \in {PerformTask(options.actionsMap, Trigger(id, state, Condition(m)),
                           Condition(m))} :
      /\ ts.jogTimer \in Handles
      /\ thumbLeftActive' = l.left
      /\ thumbRightActive' = l.right
      /\ timers' = ts.timers
      /\ jogTimer' = ts.jogTimer
      /\ creepTimer' = ts.creepTimer
      /\ gamepadState' = state
      /\ axisInstructions' = AxisVector(state, m, l)
      /\ calls' = cr \o task.calls
      /\ emitted' = SocketEmit(connector, options, process.gcodeSender, calls')
      /\ process' = IF task.threw THEN [process EXCEPT !.phase = "crashed", !.status = 1]
                    ELSE process
      /\ lastOp' = "use"
      /\ lastId' = id
      /\ hold' = HoldAfter(id, state, m, cr, hold)
      /\ UNCHANGED <<zProbeRecord, inbox, options, connector>>

\* ------------------------------------------------------------------------
\* Actions.jogFunction(): the timeout h expires.
\* ------------------------------------------------------------------------
\* HeartbeatCalls without the return on a vector of zeros.
HeartbeatCalls_NoZeroCheck(state, ai) ==
  IF DOMAIN state = {} \/ DOMAIN ai = {} THEN <<>>
  ELSE <<JogGantry(ai.move_x_axis, ai.move_y_axis, ai.move_z_axis)>>

HeartbeatCalls(state, ai) ==
  IF DOMAIN state = {} \/ DOMAIN ai = {} THEN <<>>
  ELSE IF ai.move_x_axis = 0 /\ ai.move_y_axis = 0 /\ ai.move_z_axis = 0 THEN <<>>
  ELSE <<JogGantry(ai.move_x_axis, ai.move_y_axis, ai.move_z_axis)>>

\* HeartbeatVector clearing the vector after the send.
HeartbeatVector_Cleared(ai) == XYZCoords

\* HeartbeatVector clearing the X and Y of the vector after the send.
HeartbeatVector_ClearedXY(ai) == [ai EXCEPT !.move_x_axis = 0, !.move_y_axis = 0]

\* What jogFunction leaves in axisInstructions.
HeartbeatVector(ai) == ai

\* HeartbeatTimers without the setTimeout.
HeartbeatTimers_NoReschedule(h, ts) ==
  [ts EXCEPT !.timers[h] = 0,
             !.creepTimer = IF ts.creepTimer = h THEN 0 ELSE ts.creepTimer]

\* The timers after the timeout h has expired and jogFunction has run.
HeartbeatTimers(h, ts) ==
  SetJogTimer([ts EXCEPT !.timers[h] = 0,
                         !.creepTimer = IF ts.creepTimer = h THEN 0 ELSE ts.creepTimer],
              JOG_INTERVAL)

JogFunction(h) ==
  \E ts \in {HeartbeatTimers(h, TimerState(timers, jogTimer, creepTimer))} :
      /\ timers[h] # 0
      /\ ts.jogTimer \in Handles
      /\ timers' = ts.timers
      /\ jogTimer' = ts.jogTimer
      /\ creepTimer' = ts.creepTimer
      /\ calls' = HeartbeatCalls(gamepadState, axisInstructions)
      /\ emitted' = SocketEmit(connector, options, process.gcodeSender, calls')
      /\ axisInstructions' = HeartbeatVector(axisInstructions)
      /\ lastOp' = "tick"
      /\ lastId' = ""
      /\ UNCHANGED hold
      /\ UNCHANGED <<numDevices, pad, gamepadState, thumbLeftActive, thumbRightActive,
                     zProbeRecord, inbox, options, connector, process>>

\* ------------------------------------------------------------------------
\* GamepadController: the events of the device.  Each of down, up and move
\* emits 'use' with the logical name and the state of the device.
\* ------------------------------------------------------------------------
GamepadEventDown(n) ==
  /\ numDevices > 0
  /\ pad.buttonStates[n] = 0
  /\ pad' = [pad EXCEPT !.buttonStates[n] = 1]
  /\ OnUse(n, pad')
  /\ UNCHANGED numDevices

GamepadEventUp(n) ==
  /\ numDevices > 0
  /\ pad.buttonStates[n] # 0
  /\ pad' = [pad EXCEPT !.buttonStates[n] = 0]
  /\ OnUse(n, pad')
  /\ UNCHANGED numDevices

GamepadEventMove(n, value) ==
  /\ numDevices > 0
  /\ pad.axisStates[n] # value
  /\ pad' = [pad EXCEPT !.axisStates[n] = value]
  /\ OnUse(n, pad')
  /\ UNCHANGED numDevices

\* The engine does not subscribe to attach and remove.
GamepadEventAttach ==
  /\ numDevices < MaxDevices
  /\ numDevices' = numDevices + 1
  /\ connector' = AttachConnector(connector, options, numDevices')
  /\ calls' = <<>>
  /\ emitted' = <<>>
  /\ lastOp' = "attach"
  /\ lastId' = ""
  /\ UNCHANGED hold
  /\ UNCHANGED <<pad, gamepadState, axisInstructions, thumbLeftActive,
                 thumbRightActive, timers, jogTimer, creepTimer, zProbeRecord,
                 inbox, options, process>>

GamepadEventRemove ==
  /\ numDevices > 0
  /\ numDevices' = numDevices - 1
  /\ pad' = IF numDevices' = 0 THEN Neutral ELSE pad
  /\ connector' = RemoveConnector(connector, numDevices')
  /\ hold' = IF numDevices' = 0 THEN [hold EXCEPT !.crept = {}, !.enabled = {}] ELSE hold
  /\ calls' = <<>>
  /\ emitted' = <<>>
  /\ lastOp' = "remove"
  /\ lastId' = ""
  /\ UNCHANGED <<gamepadState, axisInstructions, thumbLeftActive,
                 thumbRightActive, timers, jogTimer, creepTimer, zProbeRecord,
                 inbox, options, process>>

\* ------------------------------------------------------------------------
\* GcodeShapeoko (gcode-shapeoko.ts): the record of the last probe report.
\* A status line is a sequence of characters.  A coordinate is held in
\* thousandths of a millimetre; NaN is what Number() gives for text that is
\* not a number, and arithmetic on NaN gives NaN.
\* ------------------------------------------------------------------------
NaN == 0 - 2^30

DigitChars == <<"0", "1", "2", "3", "4", "5", "6", "7", "8", "9">>

Digits == {DigitChars[i] : i \in 1..10}

DigitValue(c) == (CHOOSE i \in 1..10 : DigitChars[i] = c) - 1

\* The characters the . of a regular expression does not match.
LineTerminators == {"\n", "\r"}

WhiteSpace == {" ", "\t"} \cup LineTerminators

\* new ZProbeRecord()
NewZProbeRecord == [x |-> 0, y |-> 0, z |-> 0, success |-> FALSE]

\* data.match(/^\[PRB:.*:\d\]$/) != null
isValidString(data) ==
  /\ Len(data) >= 8
  /\ SubSeq(data, 1, 5) = <<"[", "P", "R", "B", ":">>
  /\ \A i \in 6..(Len(data) - 3) : data[i] \notin LineTerminators
  /\ data[Len(data) - 2] = ":"
  /\ data[Len(data) - 1] \in Digits
  /\ data[Len(data)] = "]"

\* data.match(/:(.*):/)[1]: the text from the first colon to the last one.
\* A valid string has no line terminator between the two.
ValuesText(data) ==
  LET colons == {i \in 1..Len(data) : data[i] = ":"}
      first == CHOOSE i \in colons : \A j \in colons : i <= j
      last == CHOOSE i \in colons : \A j \in colons : j <= i
  IN  SubSeq(data, first + 1, last - 1)

\* data.match(/.*:(\d)/)[1]: the digit after the last colon that a digit follows.
SuccessText(data) ==
  LET flags == {i \in 1..(Len(data) - 1) : data[i] = ":" /\ data[i + 1] \in Digits}
      last == CHOOSE i \in flags : \A j \in flags : j <= i
  IN  data[last + 1]

\* String.prototype.split(sep)
RECURSIVE Split(_, _)
Split(s, sep) ==
  LET seps == {i \in 1..Len(s) : s[i] = sep}
  IN  IF seps = {} THEN <<s>>
      ELSE \* the text before the first separator, then the rest split
           CHOOSE r \in {<<SubSeq(s, 1, i - 1)>> \o Split(SubSeq(s, i + 1, Len(s)), sep) :
                           i \in {j \in seps : \A k \in seps : j <= k}} : TRUE

\* The text without its leading and trailing white space.
Trim(s) ==
  LET inside == {i \in 1..Len(s) : s[i] \notin WhiteSpace}
  IN  IF inside = {} THEN <<>>
      ELSE SubSeq(s, CHOOSE i \in inside : \A j \in inside : i <= j,
                     CHOOSE i \in inside : \A j \in inside : j <= i)

IsDigits(s) == \A i \in 1..Len(s) : s[i] \in Digits

RECURSIVE DigitsValue(_)
DigitsValue(s) ==
  IF s = <<>> THEN 0
  ELSE 10 * DigitsValue(SubSeq(s, 1, Len(s) - 1)) + DigitValue(s[Len(s)])

\* The thousandths a fraction's digits stand for (digits after the third
\* are below the unit of the model).
FractionValue(s) ==
  DigitsValue(SubSeq(s \o <<"0", "0", "0">>, 1, 3))

\* An unsigned decimal literal: digits, with or without a point.
UnsignedValue(s) ==
  LET points == {i \in 1..Len(s) : s[i] = "."}
  IN  IF points = {}
      THEN IF s # <<>> /\ IsDigits(s) THEN 1000 * DigitsValue(s) ELSE NaN
      ELSE LET p == CHOOSE i \in points : \A j \in points : i <= j
               int == SubSeq(s, 1, p - 1)
               frac == SubSeq(s, p + 1, Len(s))
           IN  IF IsDigits(int) /\ IsDigits(frac) /\ Len(int) + Len(frac) > 0
               THEN 1000 * DigitsValue(int) + FractionValue(frac)
               ELSE NaN

\* Number(text) for the decimal literals of a status line: white space is
\* trimmed, the empty text is 0, a sign may lead, anything else is NaN.
ToNumber(text) ==
  LET s == Trim(text)
  IN  IF s = <<>> THEN 0
      ELSE IF s[1] = "-"
           THEN LET v == UnsignedValue(Tail(s)) IN IF v = NaN THEN NaN ELSE 0 - v
      ELSE IF s[1] = "+" THEN UnsignedValue(Tail(s))
      ELSE UnsignedValue(s)

\* Number(values[k]): an element the array does not have is undefined, and
\* Number(undefined) is NaN.
NumberAt(values, k) ==
  IF k <= Len(values) THEN ToNumber(values[k]) ELSE NaN

\* updateFromString writing the coordinates of a successful report only.
updateFromString_SuccessOnly(rec, data) ==
  IF ~isValidString(data) THEN rec
  ELSE IF DigitValue(SuccessText(data)) = 0 THEN rec
  ELSE LET values == Split(ValuesText(data), ",")
       IN  [x |-> NumberAt(values, 1), y |-> NumberAt(values, 2),
            z |-> NumberAt(values, 3), success |-> TRUE]

\* ZProbeRecord.updateFromString(data)
updateFromString(rec, data) ==
  IF ~isValidString(data) THEN rec
  ELSE LET values == Split(ValuesText(data), ",")
       IN  [x |-> NumberAt(values, 1),
            y |-> NumberAt(values, 2),
            z |-> NumberAt(values, 3),
            success |-> DigitValue(SuccessText(data)) # 0]

Minus(a, b) == IF a = NaN \/ b = NaN THEN NaN ELSE a - b

\* The messages the subscriber sends after a successful report.
SetOffset(rec) ==
  <<[op |-> "sendMessage", gcode |-> "G91"],
    [op |-> "sendMessage", gcode |-> "G10 L2 P1 Z", z |-> Minus(rec.z, zProbeThickness)],
    [op |-> "sendMessage", gcode |-> "G0 Z3"],
    [op |-> "sendMessage", gcode |-> "G90"]>>

\* The arguments of sendMessage for a message of SetOffset.
SentGcode(m) ==
  IF "z" \in DOMAIN m
  THEN [event |-> "command", directive |-> "gcode", data |-> m.gcode, z |-> m.z]
  ELSE Gcode(m.gcode)

\* The socket delivers a 'serialport:read' message.  A message is handled
\* before the next one is delivered.
Receive(data) ==
  /\ inbox = <<>>
  /\ inbox' = <<data>>
  /\ calls' = <<>>
  /\ emitted' = <<>>
  /\ lastOp' = "message"
  /\ lastId' = ""
  /\ UNCHANGED hold
  /\ UNCHANGED <<numDevices, pad, gamepadState, axisInstructions, thumbLeftActive,
                 thumbRightActive, timers, jogTimer, creepTimer, zProbeRecord,
                 options, connector, process>>

\* The subscriber of 'serialport:read' handles the message delivered.
SerialportRead ==
  /\ inbox # <<>>
  /\ \E data \in {inbox[1]} :
     \E rec \in {IF isValidString(data) THEN updateFromString(zProbeRecord, data)
                 ELSE zProbeRecord} :
        /\ zProbeRecord' = rec
        /\ calls' = IF isValidString(data) /\ rec.success THEN SetOffset(rec) ELSE <<>>
  /\ emitted' = SendMessage(connector, options,
                            [i \in 1..Len(calls') |-> SentGcode(calls'[i])])
  /\ inbox' = <<>>
  /\ lastOp' = "serialport:read"
  /\ lastId' = ""
  /\ UNCHANGED hold
  /\ UNCHANGED <<numDevices, pad, gamepadState, axisInstructions, thumbLeftActive,
                 thumbRightActive, timers, jogTimer, creepTimer, options, connector,
                 process>>

\* ------------------------------------------------------------------------
\* The engine after its constructor: no event yet, the first heartbeat
\* scheduled.
\* ------------------------------------------------------------------------
InitTimers ==
  SetJogTimer(TimerState([h \in Handles |-> 0], 0, 0), JOG_INTERVAL)

\* The program with the options o, the process p and the history h.
Constructed(o, p, h) ==
  /\ hold = h
  /\ numDevices = 0
  /\ pad = Neutral
  /\ gamepadState = EmptyState
  /\ axisInstructions = XYZCoords
  /\ thumbLeftActive = FALSE
  /\ thumbRightActive = FALSE
  /\ timers = InitTimers.timers
  /\ jogTimer = InitTimers.jogTimer
  /\ creepTimer = 0
  /\ calls = <<>>
  /\ lastOp = "init"
  /\ lastId = ""
  /\ zProbeRecord = NewZProbeRecord
  /\ inbox = <<>>
  /\ options = o
  /\ connector = NewConnector
  /\ emitted = <<>>
  /\ process = p

\* The program with the options o and the process p.
Started(o, p) == Constructed(o, p, NoHold)

\* The process of console.ts with actions.ts, after startCLI.
Process ==
  [phase |-> "running", status |-> 0, gcodeSender |-> "GcodeGrbl", program |-> "actions.ts"]

Init == Started(DefaultOptions, Process)

\* The inputs the events of this specification change: one button for each
\* of deadmanSlow, deadmanFast and shiftKey, the two thumb buttons, one
\* trigger axis, the D-pad and both sticks.
JogButtons ==
  {"KEYCODE_BUTTON_L1", "KEYCODE_BUTTON_LTRIGGER", "KEYCODE_HOME"} \cup ThumbButtons

JogAxes == {"AXIS_RTRIGGER"} \cup HatAxes \cup StickAxes

\* No more than MaxHeld inputs are away from rest at a time.
Room == Held(pad) < MaxHeld

CanMove(n, value, room) == value = 0 \/ pad.axisStates[n] # 0 \/ room

Press == Room /\ \E n \in JogButtons : GamepadEventDown(n)

Release == \E n \in JogButtons : GamepadEventUp(n)

Move ==
  \E room \in {Room} : \E n \in JogAxes : \E value \in AxisValues(n) :
    CanMove(n, value, room) /\ GamepadEventMove(n, value)

Tick == \E h \in Handles : JogFunction(h)

\* One controller is attached and stays attached.
AttachFirst == numDevices = 0 /\ GamepadEventAttach

Next ==
  \/ AttachFirst
  \/ Press
  \/ Release
  \/ Move
  \/ Tick

Spec == Init /\ [][Next]_vars

\* ------------------------------------------------------------------------
\* The specification of controllers coming and going: attach and remove,
\* with the events of a slow deadman, a thumb button, one D-pad axis and one
\* stick axis.
\* ------------------------------------------------------------------------
DeviceButtons == {"KEYCODE_BUTTON_L1", "KEYCODE_BUTTON_THUMBL"}

DeviceAxes == {"AXIS_HAT_X", "AXIS_X"}

PressDevice == Room /\ \E n \in DeviceButtons : GamepadEventDown(n)

ReleaseDevice == \E n \in DeviceButtons : GamepadEventUp(n)

MoveDevice ==
  \E room \in {Room} : \E n \in DeviceAxes : \E value \in AxisValues(n) :
    CanMove(n, value, room) /\ GamepadEventMove(n, value)

NextDevices ==
  \/ GamepadEventAttach
  \/ GamepadEventRemove
  \/ PressDevice
  \/ ReleaseDevice
  \/ MoveDevice
  \/ Tick

SpecDevices == Init /\ [][NextDevices]_vars

\* The event loop runs the callback of every timeout that stays pending: a
\* timeout expires unless clearTimeout cancels it first.
TimeoutsExpire == \A h \in Handles : WF_vars(JogFunction(h))

\* The specification of the heartbeat's progress: controllers coming and
\* going, the slow deadman and the D-pad, whose events make the creeps.
PressLive == Room /\ GamepadEventDown("KEYCODE_BUTTON_L1")

ReleaseLive == GamepadEventUp("KEYCODE_BUTTON_L1")

MoveLive ==
  \E room \in {Room} : \E n \in HatAxes : \E value \in AxisValues(n) :
    CanMove(n, value, room) /\ GamepadEventMove(n, value)

NextLive ==
  \/ GamepadEventAttach
  \/ GamepadEventRemove
  \/ PressLive
  \/ ReleaseLive
  \/ MoveLive
  \/ Tick

LiveSpec == Init /\ [][NextLive]_vars /\ TimeoutsExpire

\* ------------------------------------------------------------------------
\* The specification of the D-pad under every modifier: the events of both
\* slow deadmen, a fast deadman button, a trigger axis, shift and the D-pad,
\* with no bound on how many are held.
\* ------------------------------------------------------------------------
DpadButtons ==
  {"KEYCODE_BUTTON_L1", "KEYCODE_BUTTON_R1", "KEYCODE_BUTTON_LTRIGGER", "KEYCODE_HOME"}

DpadAxes == {"AXIS_RTRIGGER"} \cup HatAxes

PressDpad == \E n \in DpadButtons : GamepadEventDown(n)

ReleaseDpad == \E n \in DpadButtons : GamepadEventUp(n)

MoveDpad == \E n \in DpadAxes : \E value \in AxisValues(n) : GamepadEventMove(n, value)

NextDpad ==
  \/ AttachFirst
  \/ PressDpad
  \/ ReleaseDpad
  \/ MoveDpad
  \/ Tick

SpecDpad == Init /\ [][NextDpad]_vars

\* The same events with the history of the D-pad kept.
InitCreep == Constructed(DefaultOptions, Process, [NoHold EXCEPT !.tracked = TRUE])

SpecCreep == InitCreep /\ [][NextDpad]_vars

\* ------------------------------------------------------------------------
\* The specification of the probe record: the lines the serial port
\* delivers, one at a time.  A report line is "[PRB:", fields joined by
\* commas, ":", a flag character and "]"; the other lines are status
\* traffic and reports with a part missing or changed.
\* ------------------------------------------------------------------------
\* Coordinates as Grbl prints them, each with the number it stands for.
CoordinateTexts ==
  {[text |-> <<"1", ".", "0", "0", "0">>, value |-> 1000],
   [text |-> <<"2", ".", "0", "0", "0">>, value |-> 2000],
   [text |-> <<"-", "3", ".", "0", "0", "0">>, value |-> 0 - 3000]}

FieldTexts == {c.text : c \in CoordinateTexts} \cup {<<"a", "b", "c">>, <<>>}

FieldLists ==
  UNION {[1..n -> FieldTexts] : n \in 1..MaxFields} \cup {<< <<"4", ":", "5">> >>}

FlagChars == {"0", "1", "2"}

RECURSIVE Join(_)
Join(fields) ==
  IF Len(fields) = 0 THEN <<>>
  ELSE IF Len(fields) = 1 THEN fields[1]
  ELSE fields[1] \o <<",">> \o Join(Tail(fields))

ReportLine(fields, flag) ==
  <<"[", "P", "R", "B", ":">> \o Join(fields) \o <<":", flag, "]">>

Reports == {ReportLine(fields, flag) : fields \in FieldLists, flag \in FlagChars}

ScenarioFields ==
  << <<"1", ".", "0", "0", "0">>, <<"2", ".", "0", "0", "0">>,
     <<"-", "3", ".", "0", "0", "0">> >>

\* Lines that are not reports: "ok", and the scenario's report without its
\* opening bracket, in lower case, without its flag, with a flag of two
\* digits, with a letter for a flag, and with a carriage return after it.
OtherLines ==
  {<<"o", "k">>,
   Tail(ReportLine(ScenarioFields, "1")),
   <<"[", "p", "r", "b", ":">> \o Join(ScenarioFields) \o <<":", "1", "]">>,
   <<"[", "P", "R", "B", ":">> \o Join(ScenarioFields) \o <<"]">>,
   <<"[", "P", "R", "B", ":">> \o Join(ScenarioFields) \o <<":", "1", "0", "]">>,
   ReportLine(ScenarioFields, "a"),
   ReportLine(ScenarioFields, "1") \o <<"\r">>}

Lines == Reports \cup OtherLines

Deliver == inbox = <<>> /\ \E data \in Lines : Receive(data)

NextProbe ==
  \/ Deliver
  \/ SerialportRead

SpecProbe == Init /\ [][NextProbe]_vars

\* ------------------------------------------------------------------------
\* The specification of the engine with an actions map: the map gives one
\* entry to button A unmodified, to the D-pad's left and right edges under
\* shift and to its right edge under the slow deadman, and a fixed entry to
\* button A under the slow deadman.  The entry is a known directive or an
\* unknown name, in upper or lower case, bare or in a list with a parameter.
\* ------------------------------------------------------------------------
GamepadEventDownMapped(n) ==
  /\ numDevices > 0
  /\ pad.buttonStates[n] = 0
  /\ pad' = [pad EXCEPT !.buttonStates[n] = 1]
  /\ OnUseMapped(n, pad')
  /\ UNCHANGED numDevices

GamepadEventUpMapped(n) ==
  /\ numDevices > 0
  /\ pad.buttonStates[n] # 0
  /\ pad' = [pad EXCEPT !.buttonStates[n] = 0]
  /\ OnUseMapped(n, pad')
  /\ UNCHANGED numDevices

GamepadEventMoveMapped(n, value) ==
  /\ numDevices > 0
  /\ pad.axisStates[n] # value
  /\ pad' = [pad EXCEPT !.axisStates[n] = value]
  /\ OnUseMapped(n, pad')
  /\ UNCHANGED numDevices

UnknownNames == {<<"F", "O", "O">>, <<"s", "p", "i", "n", "d", "l", "e">>}

DirectiveNames == {TaskCases[k].name : k \in 1..Len(TaskCases)} \cup UnknownNames

Entries ==
  {[list |-> FALSE, task |-> name] : name \in DirectiveNames}
  \cup {[list |-> FALSE, task |-> ToLowerCase(name)] : name \in DirectiveNames}
  \cup {[list |-> TRUE, items |-> <<ToLowerCase(name), 1000>>] :
           name \in DirectiveNames}
  \cup {[list |-> FALSE, task |-> <<>>]}

FixedEntry == [list |-> TRUE, items |-> << <<"c", "o", "o", "l", "a", "n", "t", "O", "f", "f">> >>]

MapOf(e) ==
  [trigger \in {"KEYCODE_BUTTON_A", "AXIS_HAT_X_MINUS", "AXIS_HAT_X_PLUS"} |->
     IF trigger = "KEYCODE_BUTTON_A"
     THEN [condition \in {"unmodified", "deadmanXYOnly"} |->
             IF condition = "unmodified" THEN e ELSE FixedEntry]
     ELSE IF trigger = "AXIS_HAT_X_MINUS"
     THEN [condition \in {"shiftKeyOnly"} |-> e]
     ELSE [condition \in {"shiftKeyOnly", "deadmanXYOnly"} |-> e]]

Maps == {MapOf(e) : e \in Entries} \cup {NoMap}

InitMap ==
  \E map \in Maps :
    Started([DefaultOptions EXCEPT !.actionsMap = map],
            [Process EXCEPT !.program = "part_002"])

MapButtons == {"KEYCODE_BUTTON_A", "KEYCODE_BUTTON_L1", "KEYCODE_HOME"}

PressMap == Running /\ \E n \in MapButtons : GamepadEventDownMapped(n)

ReleaseMap == Running /\ \E n \in MapButtons : GamepadEventUpMapped(n)

MoveMap ==
  Running /\ \E value \in AxisValues("AXIS_HAT_X") : GamepadEventMoveMapped("AXIS_HAT_X", value)

TickMap == Running /\ Tick

NextMap ==
  \/ AttachFirst
  \/ PressMap
  \/ ReleaseMap
  \/ MoveMap
  \/ TickMap

SpecMap == InitMap /\ [][NextMap]_vars

\* ------------------------------------------------------------------------
\* The specification of the fixed table: the events of the six command
\* buttons, a slow deadman, a fast deadman, shift and the D-pad, with no
\* more than MaxHeld inputs away from rest.
\* ------------------------------------------------------------------------
TableButtons ==
  CommandButtons \cup {"KEYCODE_BUTTON_L1", "KEYCODE_BUTTON_LTRIGGER", "KEYCODE_HOME"}

PressTable == Room /\ \E n \in TableButtons : GamepadEventDown(n)

ReleaseTable == \E n \in TableButtons : GamepadEventUp(n)

MoveTable ==
  \E room \in {Room} : \E n \in HatAxes : \E value \in AxisValues(n) :
    CanMove(n, value, room) /\ GamepadEventMove(n, value)

NextTable ==
  \/ AttachFirst
  \/ PressTable
  \/ ReleaseTable
  \/ MoveTable
  \/ Tick

SpecTable == Init /\ [][NextTable]_vars

\* ------------------------------------------------------------------------
\* Startup: the choice of the dialect.  The program is the engine of
\* actions.ts, the engine with the actions map (part_002) or the legacy
\* pendant (bin/gcode.js); before the choice no sender exists and no
\* heartbeat is scheduled.
\* ------------------------------------------------------------------------
Grbl == <<"g", "r", "b", "l">>

Marlin == <<"m", "a", "r", "l", "i", "n">>

Shapeoko == <<"s", "h", "a", "p", "e", "o", "k", "o">>

\* The class the switch on controllerType.toLowerCase() selects, "none"
\* for its default case.
NewGcodeSender(program, controllerType) ==
  LET t == ToLowerCase(controllerType)
  IN  IF t = Grbl THEN "GcodeGrbl"
      ELSE IF t = Marlin THEN "GcodeMarlin"
      ELSE IF program = "part_002" /\ t = Shapeoko THEN "GcodeShapeoko"
      ELSE "none"

\* The constructor of Actions: newGcodeSender, then the subscription to
\* 'use' and the first heartbeat.  The default case exits with status 1.
\* The constructor of GcodeShapeoko subscribes to 'serialport:read', which
\* reads this.socket before any socket exists unless simulate is set: the
\* TypeError ends the process.
NewActions ==
  /\ process.phase = "start"
  /\ process.program \in {"actions.ts", "part_002"}
  /\ \E sender \in {NewGcodeSender(process.program, options.controllerType)} :
       IF sender = "none"
       THEN /\ process' = [process EXCEPT !.phase = "exited", !.status = 1]
            /\ UNCHANGED <<timers, jogTimer>>
       ELSE IF sender = "GcodeShapeoko" /\ ~options.simulate
       THEN /\ process' = [process EXCEPT !.phase = "crashed", !.status = 1]
            /\ UNCHANGED <<timers, jogTimer>>
       ELSE /\ process' = [process EXCEPT !.phase = "running", !.gcodeSender = sender]
            /\ timers' = InitTimers.timers
            /\ jogTimer' = InitTimers.jogTimer
  /\ calls' = <<>>
  /\ emitted' = <<>>
  /\ lastOp' = "start"
  /\ lastId' = ""
  /\ UNCHANGED hold
  /\ UNCHANGED <<numDevices, pad, gamepadState, axisInstructions, thumbLeftActive,
                 thumbRightActive, creepTimer, zProbeRecord, inbox, options,
                 connector>>

\* The legacy pendant: the default case calls process.exit() with no
\* status, which ends the process with status 0.
LegacyStart ==
  /\ process.phase = "start"
  /\ process.program = "gcode.js"
  /\ \E sender \in {NewGcodeSender(process.program, options.controllerType)} :
       IF sender = "none"
       THEN process' = [process EXCEPT !.phase = "exited", !.status = 0]
       ELSE process' = [process EXCEPT !.phase = "running", !.gcodeSender = sender]
  /\ calls' = <<>>
  /\ emitted' = <<>>
  /\ lastOp' = "start"
  /\ lastId' = ""
  /\ UNCHANGED hold
  /\ UNCHANGED <<numDevices, pad, gamepadState, axisInstructions, thumbLeftActive,
                 thumbRightActive, timers, jogTimer, creepTimer, zProbeRecord, inbox,
                 options, connector>>

\* ------------------------------------------------------------------------
\* The specification of startup: the controller type is a built-in name or
\* another one, in any letter case, and the events of one button and the
\* heartbeat follow in the engines that start.
\* ------------------------------------------------------------------------
Programs == {"actions.ts", "part_002", "gcode.js"}

ControllerTypes ==
  {Grbl, <<"G", "r", "b", "l">>, <<"M", "A", "R", "L", "I", "N">>, Shapeoko,
   <<"S", "m", "o", "o", "t", "h", "i", "e">>, <<"T", "i", "n", "y", "G">>}

InitStartup ==
  \E program \in Programs : \E type \in ControllerTypes : \E simulate \in BOOLEAN :
    /\ numDevices = 0
    /\ pad = Neutral
    /\ gamepadState = EmptyState
    /\ axisInstructions = XYZCoords
    /\ thumbLeftActive = FALSE
    /\ thumbRightActive = FALSE
    /\ timers = [h \in Handles |-> 0]
    /\ jogTimer = 0
    /\ creepTimer = 0
    /\ calls = <<>>
    /\ lastOp = "init"
    /\ lastId = ""
    /\ zProbeRecord = NewZProbeRecord
    /\ inbox = <<>>
    /\ options = [DefaultOptions EXCEPT !.controllerType = type, !.simulate = simulate]
    /\ connector = NewConnector
    /\ emitted = <<>>
    /\ process = [phase |-> "start", status |-> 0, gcodeSender |-> "none",
                  program |-> program]
    /\ hold = NoHold

AttachStartup == Running /\ process.program # "gcode.js" /\ AttachFirst

PressStartup ==
  Running /\ process.program = "actions.ts" /\ GamepadEventDown("KEYCODE_BUTTON_A")

ReleaseStartup ==
  Running /\ process.program = "actions.ts" /\ GamepadEventUp("KEYCODE_BUTTON_A")

PressStartupMapped ==
  Running /\ process.program = "part_002" /\ GamepadEventDownMapped("KEYCODE_BUTTON_A")

ReleaseStartupMapped ==
  Running /\ process.program = "part_002" /\ GamepadEventUpMapped("KEYCODE_BUTTON_A")

TickStartup == Running /\ process.program # "gcode.js" /\ Tick

NextStartup ==
  \/ NewActions
  \/ LegacyStart
  \/ AttachStartup
  \/ PressStartup
  \/ ReleaseStartup
  \/ PressStartupMapped
  \/ ReleaseStartupMapped
  \/ TickStartup

SpecStartup == InitStartup /\ [][NextStartup]_vars

\* ------------------------------------------------------------------------
\* Connector: the handlers connectServer subscribes to the socket, and the
\* interval of openSerial.  Only the socket of connectServer has handlers.
\* ------------------------------------------------------------------------
\* The arguments of socket.emit in the interval of openSerial.
OpenRequest(o) ==
  [event |-> "open", port |-> "/dev/ttyUSB0", baudrate |-> 115200,
   controllerType |-> o.controllerType]

\* A handler of the socket changes the connector to c.
SocketHandler(name, c) ==
  /\ Running
  /\ connector.socket = "listening"
  /\ connector' = c
  /\ calls' = <<>>
  /\ emitted' = <<>>
  /\ lastOp' = name
  /\ lastId' = ""
  /\ UNCHANGED hold
  /\ UNCHANGED <<numDevices, pad, gamepadState, axisInstructions, thumbLeftActive,
                 thumbRightActive, timers, jogTimer, creepTimer, zProbeRecord, inbox,
                 options, process>>

SocketConnect == SocketHandler("connect", OpenSerial(connector, options))

\* socket.destroy(), then a socket that connectServer has not subscribed to.
SocketError == SocketHandler("error", [connector EXCEPT !.socket = "bare"])

SocketClose == SocketHandler("close", [connector EXCEPT !.socket = "bare"])

SerialportOpen ==
  SocketHandler("serialport:open", [ClearSerial(connector) EXCEPT !.serialConnected = TRUE])

SerialportClose ==
  SocketHandler("serialport:close",
                OpenSerial([connector EXCEPT !.serialConnected = FALSE], options))

SerialportError ==
  SocketHandler("serialport:error",
                OpenSerial([connector EXCEPT !.serialConnected = FALSE], options))

\* An interval of openSerial fires: the one this.serial names or one that
\* was overwritten without being cleared.
SerialInterval ==
  /\ Running
  /\ connector.serial.current \/ connector.serial.leaked
  /\ emitted' = <<OpenRequest(options)>>
  /\ calls' = <<>>
  /\ lastOp' = "interval"
  /\ lastId' = ""
  /\ UNCHANGED hold
  /\ UNCHANGED <<numDevices, pad, gamepadState, axisInstructions, thumbLeftActive,
                 thumbRightActive, timers, jogTimer, creepTimer, zProbeRecord, inbox,
                 options, connector, process>>

\* An operation of the sender is called.
Invoke(call) ==
  /\ Running
  /\ calls' = <<call>>
  /\ emitted' = SocketEmit(connector, options, process.gcodeSender, calls')
  /\ lastOp' = "invoke"
  /\ lastId' = ""
  /\ UNCHANGED hold
  /\ UNCHANGED <<numDevices, pad, gamepadState, axisInstructions, thumbLeftActive,
                 thumbRightActive, timers, jogTimer, creepTimer, zProbeRecord, inbox,
                 options, connector, process>>

\* ------------------------------------------------------------------------
\* The specification of the transport: in run or simulate mode, controllers
\* coming and going, the messages of the server, the interval, the slow
\* deadman and the D-pad's X axis with the heartbeat, and the probe
\* operation and two others called directly.
\* ------------------------------------------------------------------------
InitSender ==
  \E simulate \in BOOLEAN : Started([DefaultOptions EXCEPT !.simulate = simulate], Process)

SenderOperations == {"performProbing", "controllerStart", "moveGantryHome"}

InvokeSender == \E op \in SenderOperations : Invoke(Call(op))

PressSender == GamepadEventDown("KEYCODE_BUTTON_L1")

ReleaseSender == GamepadEventUp("KEYCODE_BUTTON_L1")

MoveSender ==
  \E value \in AxisValues("AXIS_HAT_X") : GamepadEventMove("AXIS_HAT_X", value)

NextSender ==
  \/ GamepadEventAttach
  \/ GamepadEventRemove
  \/ SocketConnect
  \/ SocketError
  \/ SocketClose
  \/ SerialportOpen
  \/ SerialportClose
  \/ SerialportError
  \/ SerialInterval
  \/ InvokeSender
  \/ PressSender
  \/ ReleaseSender
  \/ MoveSender
  \/ Tick

SpecSender == InitSender /\ [][NextSender]_vars

\* ------------------------------------------------------------------------
\* The specification of the dialects: each class of sender with a connector
\* in run mode, the serial port opening and closing, the operations that
\* travel, jog, probe and home called directly, and for GcodeShapeoko the
\* lines read from the serial port.
\* ------------------------------------------------------------------------
Senders == {"GcodeSender", "GcodeGrbl", "GcodeMarlin", "GcodeShapeoko"}

InitDialect ==
  \E sender \in Senders :
    Started(DefaultOptions, [Process EXCEPT !.gcodeSender = sender, !.program = "part_002"])

DialectOperations ==
  {"moveGantryHome", "moveGantryReturn", "moveGantryWCSHome", "moveGantryZProbePos",
   "moveZedZero", "performProbing", "performHoming"}

InvokeDialect == \E op \in DialectOperations : Invoke(Call(op))

JogDialect ==
  \E op \in {"moveGantryJogToXYZ", "moveGantryRelative"} :
    Invoke([Call(op) EXCEPT !.x = MM, !.mmPerMin = 1000])

\* Two successful reports at different places, a failed one, and "ok".
DialectLines ==
  {ReportLine(ScenarioFields, "1"),
   ReportLine(<<ScenarioFields[2], ScenarioFields[1], ScenarioFields[3]>>, "1"),
   ReportLine(<<ScenarioFields[2], ScenarioFields[2], ScenarioFields[1]>>, "0"),
   <<"o", "k">>}

DeliverDialect ==
  /\ process.gcodeSender = "GcodeShapeoko"
  /\ connector.socket = "listening"
  /\ \E data \in DialectLines : Receive(data)

NextDialect ==
  \/ AttachFirst
  \/ SocketConnect
  \/ SerialportOpen
  \/ SerialportClose
  \/ InvokeDialect
  \/ JogDialect
  \/ DeliverDialect
  \/ SerialportRead

SpecDialect == InitDialect /\ [][NextDialect]_vars

\* ------------------------------------------------------------------------
\* The specification for the properties of onUse as a function of the
\* snapshot alone: 'use' events carrying any combination of the modifier
\* buttons and trigger axes, with no bound on how many are held.
\* ------------------------------------------------------------------------
ModifierSnapshots ==
  {[axisStates |-> [n \in AxisNames |-> IF n \in TriggerAxes THEN t[n] ELSE 0],
    buttonStates |-> [n \in ButtonNames |-> IF n \in ModifierButtons THEN m[n] ELSE 0]] :
     m \in [ModifierButtons -> {0, 1}], t \in [TriggerAxes -> TriggerValues]}

GamepadEventUse(id, state) ==
  /\ numDevices > 0
  /\ pad' = state
  /\ OnUse(id, state)
  /\ UNCHANGED numDevices

UseModifiers == \E state \in ModifierSnapshots : GamepadEventUse("KEYCODE_HOME", state)

NextSnap ==
  \/ AttachFirst
  \/ UseModifiers
  \/ Tick

SpecSnap == Init /\ [][NextSnap]_vars

\* ------------------------------------------------------------------------
\* Properties.
\* ------------------------------------------------------------------------
HasSnapshot == DOMAIN gamepadState # {}

JogCalled == \E i \in 1..Len(calls) : calls[i].op = "moveGantryJogToXYZ"

JogEnabling(state) == Modifiers(state).deadmanXYOnly \/ Modifiers(state).deadmanZOnly

\* C1: a jog call (creep or heartbeat) is made only while the most recently
\* processed snapshot satisfies deadmanXYOnly or deadmanZOnly, and once a
\* snapshot satisfying neither has been processed the pending vector is
\* (0,0,0), so that no jog call follows until a later snapshot satisfies one.
C1_JogOnlyWhileEnabled ==
  /\ JogCalled => (HasSnapshot /\ JogEnabling(gamepadState))
  /\ (HasSnapshot /\ ~JogEnabling(gamepadState)) => axisInstructions = XYZCoords

\* The deadman has been released while the D-pad is still held.
C1_Witness ==
  /\ lastOp = "use"
  /\ lastId = "KEYCODE_BUTTON_L1"
  /\ ~JogEnabling(gamepadState)
  /\ gamepadState.axisStates["AXIS_HAT_X"] # 0
  /\ axisInstructions = XYZCoords

\* C2: thumbLeftActive and thumbRightActive are never both true.
C2_LatchesExclusive == ~(thumbLeftActive /\ thumbRightActive)

\* The right latch has just been enabled by its button.
C2_Witness ==
  /\ lastOp = "use"
  /\ lastId = "KEYCODE_BUTTON_THUMBR"
  /\ thumbRightActive

CompositesOf(state) ==
  {c \in {"unmodified", "shiftKeyOnly", "deadmanXYOnly", "deadmanZOnly"} : Modifiers(state)[c]}

\* C3: for every snapshot at most one of unmodified, shiftKeyOnly,
\* deadmanXYOnly, deadmanZOnly is true, and none is true exactly when
\* shiftKey is held together with a deadman.
C3_OneComposite ==
  HasSnapshot =>
    /\ Cardinality(CompositesOf(gamepadState)) <= 1
    /\ (CompositesOf(gamepadState) = {})
         <=> (Modifiers(gamepadState).shiftKey
              /\ (Modifiers(gamepadState).deadmanSlow \/ Modifiers(gamepadState).deadmanFast))

\* Shift is held with both deadmen, by R1 and by the left trigger axis.
C3_Witness ==
  /\ lastOp = "use"
  /\ gamepadState.buttonStates["KEYCODE_HOME"] = 1
  /\ gamepadState.buttonStates["KEYCODE_BUTTON_R1"] = 1
  /\ gamepadState.axisStates["AXIS_LTRIGGER"] = ONE
  /\ CompositesOf(gamepadState) = {}

\* The calls of the last step are exactly one jog of (x, y, z).
OneJog(x, y, z) ==
  /\ Len(calls) = 1
  /\ calls[1].op = "moveGantryJogToXYZ"
  /\ calls[1].x = x
  /\ calls[1].y = y
  /\ calls[1].z = z

\* The last step was a 'use' event of a D-pad axis, reporting it away from
\* rest, under deadmanXYOnly.
DpadEdgeXY ==
  /\ lastOp = "use"
  /\ lastId \in HatAxes
  /\ gamepadState.axisStates[lastId] # 0
  /\ Modifiers(gamepadState).deadmanXYOnly

\* C4: an event whose triggering input is a D-pad axis away from rest under
\* deadmanXYOnly makes exactly one call, a jog of the creep distance on that
\* axis (0.5 mm under deadmanSlow, else 1 mm; Y inverted) with the other
\* components 0, and schedules the creep-interval timeout; as long as that
\* timeout is pending it is the only pending timeout, so that no heartbeat
\* runs, and no heartbeat jog call is made, before it expires.
C4_CreepOnDpadEdge ==
  /\ DpadEdgeXY =>
       LET v == gamepadState.axisStates[lastId] \div ONE
           d == IF Modifiers(gamepadState).deadmanSlow THEN MM \div 2 ELSE MM
       IN  /\ lastId = "AXIS_HAT_X" => OneJog(v * d, 0, 0)
           /\ lastId = "AXIS_HAT_Y" => OneJog(0, -(v * d), 0)
           /\ creepTimer # 0
           /\ jogTimer = creepTimer
  /\ creepTimer # 0 =>
       /\ Pending(timers) = {creepTimer}
       /\ timers[creepTimer] = CREEP_INTERVAL
  /\ (lastOp = "tick" /\ calls # <<>>) => creepTimer = 0

\* The D-pad has just been pushed left under the fast deadman alone.
C4_Witness ==
  /\ DpadEdgeXY
  /\ lastId = "AXIS_HAT_X"
  /\ gamepadState.axisStates["AXIS_HAT_X"] = -ONE
  /\ ~Modifiers(gamepadState).deadmanSlow
  /\ OneJog(-MM, 0, 0)
  /\ timers[jogTimer] = CREEP_INTERVAL

\* The step is a run of jogFunction.
TickStep == lastOp' = "tick"

\* C5: a heartbeat tick leaves the pending vector, the stored snapshot and
\* both latches as they were, and when the vector is not (0,0,0) it makes
\* exactly one jog call of that vector; so ticks that follow one another
\* with no event in between make the same jog call.
C5_TickKeepsVector ==
  [][TickStep =>
       /\ axisInstructions' = axisInstructions
       /\ gamepadState' = gamepadState
       /\ thumbLeftActive' = thumbLeftActive
       /\ thumbRightActive' = thumbRightActive
       /\ (HasSnapshot /\ axisInstructions # XYZCoords) =>
            /\ Len(calls') = 1
            /\ calls'[1].op = "moveGantryJogToXYZ"
            /\ calls'[1].x = axisInstructions.move_x_axis
            /\ calls'[1].y = axisInstructions.move_y_axis
            /\ calls'[1].z = axisInstructions.move_z_axis]_vars

\* A tick has sent a diagonal jog and the vector is still pending, with a
\* latch enabled.
C5_Witness ==
  /\ lastOp = "tick"
  /\ axisInstructions.move_x_axis # 0
  /\ axisInstructions.move_y_axis # 0
  /\ OneJog(axisInstructions.move_x_axis, axisInstructions.move_y_axis, 0)
  /\ thumbLeftActive

\* C7: a heartbeat tick that finds the pending vector (0,0,0) makes no call
\* and changes nothing of the engine but its timers, where it leaves the
\* next heartbeat scheduled, one JOG_INTERVAL away, as the only timeout.
C7_IdleTickSilent ==
  [][(TickStep /\ axisInstructions = XYZCoords) =>
       /\ calls' = <<>>
       /\ UNCHANGED <<axisInstructions, gamepadState, thumbLeftActive, thumbRightActive>>
       /\ Pending(timers') = {jogTimer'}
       /\ timers'[jogTimer'] = JOG_INTERVAL]_vars

\* A tick has found the vector (0,0,0) while a snapshot with the D-pad held
\* is stored.
C7_Witness ==
  /\ lastOp = "tick"
  /\ HasSnapshot
  /\ gamepadState.axisStates["AXIS_HAT_Y"] # 0
  /\ axisInstructions = XYZCoords
  /\ calls = <<>>

\* C9: at most one timeout of the heartbeat is pending at any moment, and it
\* is the one this.jogTimer names.
C9_OneHeartbeat ==
  /\ Cardinality(Pending(timers)) <= 1
  /\ Pending(timers) = {jogTimer}

\* A creep has replaced the heartbeat that was scheduled by a creep before it.
C9_Witness ==
  /\ lastOp = "use"
  /\ JogCalled
  /\ creepTimer = jogTimer
  /\ jogTimer = 1
  /\ gamepadState.axisStates["AXIS_HAT_X"] # 0
  /\ gamepadState.axisStates["AXIS_HAT_Y"] # 0

\* The step is a 'use' event that reports the D-pad axis n back at rest
\* while a snapshot enabling jogs is stored.
DpadRelease(n) ==
  /\ lastOp' = "use"
  /\ lastId' = n
  /\ HasSnapshot
  /\ JogEnabling(gamepadState)
  /\ gamepadState.axisStates[n] # 0
  /\ gamepadState'.axisStates[n] = 0

\* The latch of the stick the axis n belongs to.
LatchOf(n) == IF n \in {"AXIS_X", "AXIS_Y"} THEN thumbLeftActive ELSE thumbRightActive

\* The step is a 'use' event that reports the axis n of a latched stick back
\* inside the dead zone, under deadmanXYOnly.
StickRelease(n) ==
  /\ lastOp' = "use"
  /\ lastId' = n
  /\ HasSnapshot
  /\ Modifiers(gamepadState).deadmanXYOnly
  /\ LatchOf(n)
  /\ Abs(gamepadState.axisStates[n]) > DEADRANGE
  /\ Abs(gamepadState'.axisStates[n]) <= DEADRANGE

\* The D-pad contributions to X and Y of the snapshot that the step stores.
DpadX == Times(gamepadState'.axisStates["AXIS_HAT_X"],
               IF Modifiers(gamepadState').deadmanSlow THEN VXY_LOW ELSE VXY_MED)

DpadY == -Times(gamepadState'.axisStates["AXIS_HAT_Y"],
                IF Modifiers(gamepadState').deadmanSlow THEN VXY_LOW ELSE VXY_MED)

NoLatch == ~thumbLeftActive /\ ~thumbRightActive

Keeps(c) == axisInstructions'[c] = axisInstructions[c]

CreepMade == lastOp = "use" /\ JogCalled

\* The statement of C8 as written: under any sequence of events a heartbeat
\* tick always eventually occurs again.
C8_TickRecurs == []<>(lastOp = "tick")

\* C8: a heartbeat is scheduled at every moment, every tick scheduling the
\* next one, and a heartbeat tick always eventually occurs again unless
\* creeps keep cancelling the scheduled heartbeat for ever.
C8_TickRecursUnlessPreempted ==
  /\ [](jogTimer \in Pending(timers))
  /\ []<>(lastOp = "tick" \/ CreepMade)

\* A tick has run with the creep of an event before it still the last call
\* made from an event: the heartbeat a creep scheduled has expired and the
\* next heartbeat is scheduled.
C8_Witness ==
  /\ lastOp = "tick"
  /\ numDevices > 0
  /\ HasSnapshot
  /\ gamepadState.axisStates["AXIS_HAT_X"] # 0
  /\ calls # <<>>
  /\ creepTimer = 0
  /\ timers[jogTimer] = JOG_INTERVAL

\* The statement of C10: whenever no controller is attached, a heartbeat
\* tick makes no call.
C10_SilentWithoutController ==
  (numDevices = 0 /\ lastOp = "tick") => calls = <<>>

\* C11: after an event whose triggering input is a D-pad axis and whose
\* snapshot satisfies deadmanXYOnly or deadmanZOnly, both stick latches are
\* false.
C11_DpadClearsLatches ==
  (lastOp = "use" /\ lastId \in HatAxes /\ JogEnabling(gamepadState)) =>
    (~thumbLeftActive /\ ~thumbRightActive)

\* A D-pad event has arrived under deadmanZOnly.
C11_Witness ==
  /\ lastOp = "use"
  /\ lastId = "AXIS_HAT_Y"
  /\ Modifiers(gamepadState).deadmanZOnly
  /\ gamepadState.axisStates["AXIS_HAT_Y"] = ONE
  /\ ~thumbLeftActive
  /\ ~thumbRightActive

\* The stick that drives the component c of the stored snapshot: its latch
\* is enabled and its axis is outside the dead zone.
StickDrives(c) ==
  LET a == gamepadState.axisStates
  IN  IF c = "move_x_axis"
      THEN \/ thumbLeftActive /\ Abs(a["AXIS_X"]) > DEADRANGE
           \/ thumbRightActive /\ Abs(a["AXIS_RZ"]) > DEADRANGE
      ELSE \/ thumbLeftActive /\ Abs(a["AXIS_Y"]) > DEADRANGE
           \/ thumbRightActive /\ Abs(a["AXIS_Z"]) > DEADRANGE

\* The D-pad drives the component c of the stored snapshot: its axis is away
\* from rest and no stick drives c.
DpadDrives(c) ==
  /\ gamepadState.axisStates[IF c = "move_x_axis" THEN "AXIS_HAT_X" ELSE "AXIS_HAT_Y"] # 0
  /\ ~StickDrives(c)

\* The pending vector has a component that comes from the D-pad and one
\* that comes from a stick.
MixedSources ==
  /\ HasSnapshot
  /\ Modifiers(gamepadState).deadmanXYOnly
  /\ axisInstructions.move_x_axis # 0
  /\ axisInstructions.move_y_axis # 0
  /\ \/ DpadDrives("move_x_axis") /\ StickDrives("move_y_axis")
     \/ StickDrives("move_x_axis") /\ DpadDrives("move_y_axis")

\* The statement of C12: in no reachable state does the pending vector
\* combine a D-pad-derived component with a stick-derived component.
C12_NeverMixedSources == ~MixedSources

\* The step changes the latch of the left stick, of the right stick.
LeftFlips == thumbLeftActive' # thumbLeftActive

RightFlips == thumbRightActive' # thumbRightActive

\* The step is a 'use' event of the button n that reports it pressed.
PressEvent(n) ==
  /\ lastOp' = "use"
  /\ lastId' = n
  /\ gamepadState'.buttonStates[n] # 0

\* The step is a 'use' event of a D-pad axis under a deadman.
DpadOverride ==
  /\ lastOp' = "use"
  /\ lastId' \in HatAxes
  /\ Modifiers(gamepadState').deadmanXY \/ Modifiers(gamepadState').deadmanZ

\* The statement of C13 as written: a latch changes only on a press event
\* of its own thumb button.
C13_FlipsOnOwnPressOnly ==
  [][/\ LeftFlips => PressEvent("KEYCODE_BUTTON_THUMBL")
     /\ RightFlips => PressEvent("KEYCODE_BUTTON_THUMBR")]_vars

\* C13: a press event of a thumb button inverts that button's latch, once,
\* and a latch is enabled by no other step.  A latch is disabled, besides,
\* by a press event of the other thumb button and by a D-pad event under a
\* deadman; a release of the thumb button, a stick move or another event
\* while the button is held, and a heartbeat tick leave it as it is.
C13_LatchChanges ==
  [][/\ PressEvent("KEYCODE_BUTTON_THUMBL") => thumbLeftActive' = ~thumbLeftActive
     /\ PressEvent("KEYCODE_BUTTON_THUMBR") => thumbRightActive' = ~thumbRightActive
     /\ LeftFlips =>
          \/ PressEvent("KEYCODE_BUTTON_THUMBL")
          \/ ~thumbLeftActive' /\ (PressEvent("KEYCODE_BUTTON_THUMBR") \/ DpadOverride)
     /\ RightFlips =>
          \/ PressEvent("KEYCODE_BUTTON_THUMBR")
          \/ ~thumbRightActive' /\ (PressEvent("KEYCODE_BUTTON_THUMBL") \/ DpadOverride)
    ]_vars

\* A stick has moved while the thumb button that enabled its latch is still
\* held: the latch is still enabled.
C13_Witness ==
  /\ lastOp = "use"
  /\ lastId = "AXIS_X"
  /\ gamepadState.buttonStates["KEYCODE_BUTTON_THUMBL"] # 0
  /\ gamepadState.axisStates["AXIS_X"] = -ONE
  /\ thumbLeftActive

\* The buttons and axes of the stored snapshot, read as onUse reads them.
Pressed(n) == gamepadState.buttonStates[n] # 0

SlowHeld == Pressed("KEYCODE_BUTTON_L1") \/ Pressed("KEYCODE_BUTTON_R1")

FastHeld ==
  \/ Pressed("KEYCODE_BUTTON_LTRIGGER")
  \/ Pressed("KEYCODE_BUTTON_RTRIGGER")
  \/ gamepadState.axisStates["AXIS_LTRIGGER"] = ONE
  \/ gamepadState.axisStates["AXIS_RTRIGGER"] = ONE

ShiftHeld == Pressed("KEYCODE_HOME")

\* Every jog call of the last step, and the pending vector, moves Z alone.
OnlyZ ==
  /\ axisInstructions.move_x_axis = 0
  /\ axisInstructions.move_y_axis = 0
  /\ \A i \in 1..Len(calls) :
       calls[i].op = "moveGantryJogToXYZ" => (calls[i].x = 0 /\ calls[i].y = 0)

\* The statement of C14 as written: L1 and R1 both pressed, shift not held,
\* make deadmanZ true and deadmanXYOnly false, and the D-pad moves Z alone.
C14_L1AndR1IsZ ==
  (HasSnapshot /\ Pressed("KEYCODE_BUTTON_L1") /\ Pressed("KEYCODE_BUTTON_R1") /\ ~ShiftHeld) =>
    /\ Modifiers(gamepadState).deadmanZ
    /\ ~Modifiers(gamepadState).deadmanXYOnly
    /\ OnlyZ

\* C14: with a slow deadman (L1 or R1) and a fast deadman (a trigger button,
\* or a trigger axis at full scale) both held and shift not held, deadmanZ
\* is true and deadmanXYOnly false, and the D-pad contributes to Z alone,
\* creep and pending vector.  L1 and R1 are both slow deadmen: pressed
\* together with no fast deadman they make deadmanZ false and deadmanXYOnly
\* true, and the D-pad moves X and Y, never Z.
C14_SlowAndFastIsZ ==
  HasSnapshot =>
    /\ (SlowHeld /\ FastHeld /\ ~ShiftHeld) =>
         /\ Modifiers(gamepadState).deadmanZ
         /\ ~Modifiers(gamepadState).deadmanXYOnly
         /\ OnlyZ
    /\ (Pressed("KEYCODE_BUTTON_L1") /\ Pressed("KEYCODE_BUTTON_R1")
          /\ ~FastHeld /\ ~ShiftHeld) =>
         /\ ~Modifiers(gamepadState).deadmanZ
         /\ Modifiers(gamepadState).deadmanXYOnly
         /\ axisInstructions.move_z_axis = 0
         /\ \A i \in 1..Len(calls) : calls[i].z = 0

\* The D-pad has been pushed with L1, R1 and the trigger axis held: the
\* creep and the pending vector are on Z.
C14_Witness ==
  /\ lastOp = "use"
  /\ lastId = "AXIS_HAT_Y"
  /\ Pressed("KEYCODE_BUTTON_L1")
  /\ Pressed("KEYCODE_BUTTON_R1")
  /\ gamepadState.axisStates["AXIS_RTRIGGER"] = ONE
  /\ JogCalled
  /\ calls[1].z # 0
  /\ axisInstructions.move_z_axis # 0

\* The feedrate f, in mm/min, is that of a move of squared length d2, in
\* squared units of distance, made in one JOG_INTERVAL: f * JOG_INTERVAL /
\* 60000 mm is the length, to the unit of distance below it.
FeedrateOf(d2, f) ==
  \E r \in {(f * MM) \div (60000 \div JOG_INTERVAL)} :
    /\ r * (60000 \div JOG_INTERVAL) = f * MM
    /\ r * r <= d2
    /\ d2 < (r + 1) * (r + 1)

\* The snapshot L1 = 1, AXIS_HAT_X = 1.
SlowRight ==
  [Neutral EXCEPT !.buttonStates["KEYCODE_BUTTON_L1"] = 1, !.axisStates["AXIS_HAT_X"] = ONE]

\* The jog call of 0.5 mm on X at 300 mm/min.
HalfMmRight ==
  [op |-> "moveGantryJogToXYZ", x |-> MM \div 2, y |-> 0, z |-> 0, mmPerMin |-> 300]

\* C15: every jog call carries the feedrate that covers the length of its
\* (dx,dy,dz) in one JOG_INTERVAL; for the snapshot L1 = 1, AXIS_HAT_X = 1
\* the event of AXIS_HAT_X makes one creep call (+0.5 mm, 0, 0), and every
\* heartbeat tick while that snapshot is stored makes one jog call of
\* (+0.5 mm, 0, 0) at 300 mm/min.
C15_Feedrate ==
  /\ \A i \in 1..Len(calls) :
       calls[i].op = "moveGantryJogToXYZ" =>
         FeedrateOf(calls[i].x * calls[i].x + calls[i].y * calls[i].y
                      + calls[i].z * calls[i].z,
                    calls[i].mmPerMin)
  /\ (gamepadState = SlowRight /\ lastOp = "use" /\ lastId = "AXIS_HAT_X") =>
       calls = <<HalfMmRight>>
  /\ (gamepadState = SlowRight /\ lastOp = "tick") => calls = <<HalfMmRight>>

\* A heartbeat tick has run with the snapshot L1 = 1, AXIS_HAT_X = 1 stored.
C15_Witness ==
  /\ gamepadState = SlowRight
  /\ lastOp = "tick"
  /\ calls = <<HalfMmRight>>

\* The component v is 0 or of the magnitude d.
ZeroOr(v, d) == v = 0 \/ Abs(v) = d

\* The pending vector has X and Y of the jog velocity vxy and Z of vz, and
\* each creep of the last step is of the distance cxy on X and Y, cz on Z.
\* A jog call of an event is a creep, one of a tick is the pending vector.
TierIs(vxy, vz, cxy, cz) ==
  /\ ZeroOr(axisInstructions.move_x_axis, vxy)
  /\ ZeroOr(axisInstructions.move_y_axis, vxy)
  /\ ZeroOr(axisInstructions.move_z_axis, vz)
  /\ lastOp = "use" =>
       \A i \in 1..Len(calls) :
         calls[i].op = "moveGantryJogToXYZ" =>
           /\ ZeroOr(calls[i].x, cxy)
           /\ ZeroOr(calls[i].y, cxy)
           /\ ZeroOr(calls[i].z, cz)

\* The statement of C16 as written: on X, Y and Z the jog velocity and the
\* creep distance are the low constants when deadmanSlow holds and the
\* medium constants otherwise.
C16_TierBySlowDeadman ==
  HasSnapshot =>
    IF SlowHeld
    THEN TierIs(VXY_LOW, VZ_LOW, CXY_LOW, CZ_LOW)
    ELSE TierIs(VXY_MED, VZ_MED, CXY_MED, CZ_MED)

\* C16: on X and Y the jog velocity and the creep distance are the low
\* constants when deadmanSlow holds in the snapshot and the medium constants
\* otherwise, whatever the other inputs.  On Z the tier is selected by the
\* D-pad axis in use, not by deadmanSlow (which always holds when Z is
\* jogged): low when AXIS_HAT_X is non-zero, medium when AXIS_HAT_Y alone is.
C16_TierByDeadmanAndHat ==
  HasSnapshot =>
    TierIs(IF SlowHeld THEN VXY_LOW ELSE VXY_MED,
           IF gamepadState.axisStates["AXIS_HAT_X"] # 0 THEN VZ_LOW ELSE VZ_MED,
           IF SlowHeld THEN CXY_LOW ELSE CXY_MED,
           IF gamepadState.axisStates["AXIS_HAT_X"] # 0 THEN CZ_LOW ELSE CZ_MED)

\* Z is jogged at the medium velocity by AXIS_HAT_Y alone, with the slow
\* deadman held.
C16_Witness ==
  /\ lastOp = "tick"
  /\ HasSnapshot
  /\ SlowHeld
  /\ gamepadState.axisStates["AXIS_HAT_X"] = 0
  /\ JogCalled
  /\ Abs(calls[1].z) = VZ_MED

\* The stored snapshot's value of the axis n, and whether it is outside the
\* dead zone of 0.10 of full scale.
AxisOf(n) == gamepadState.axisStates[n]

Deflected(n) == Abs(AxisOf(n)) * 10 > ONE

\* The value that drives a component: the right stick's axis when its latch
\* is enabled and the axis deflected, else the left stick's on the same
\* terms, else the D-pad's.
Driver(hat, leftAxis, rightAxis, left, right) ==
  IF right /\ Deflected(rightAxis) THEN AxisOf(rightAxis)
  ELSE IF left /\ Deflected(leftAxis) THEN AxisOf(leftAxis)
  ELSE AxisOf(hat)

XYVelocity == IF SlowHeld THEN VXY_LOW ELSE VXY_MED

\* C17: under deadmanXYOnly each of X and Y is the jog velocity times the
\* value of its driver: the stick whose latch is enabled, when its axis is
\* beyond 0.10 of full scale, and the D-pad otherwise (Y inverted); a stick
\* at 0.10 or less, or with its latch disabled, contributes nothing.  Were
\* both latches enabled, the right stick would be the driver: it is written
\* last.
C17_StickOverridesDpad ==
  (HasSnapshot /\ Modifiers(gamepadState).deadmanXYOnly) =>
    /\ axisInstructions.move_x_axis =
         Times(Driver("AXIS_HAT_X", "AXIS_X", "AXIS_RZ", thumbLeftActive, thumbRightActive),
               XYVelocity)
    /\ axisInstructions.move_y_axis =
         -Times(Driver("AXIS_HAT_Y", "AXIS_Y", "AXIS_Z", thumbLeftActive, thumbRightActive),
                XYVelocity)
    /\ AxisVector(gamepadState, Modifiers(gamepadState), Latches(TRUE, TRUE)).move_x_axis =
         Times(Driver("AXIS_HAT_X", "AXIS_X", "AXIS_RZ", TRUE, TRUE), XYVelocity)
    /\ AxisVector(gamepadState, Modifiers(gamepadState), Latches(TRUE, TRUE)).move_y_axis =
         -Times(Driver("AXIS_HAT_Y", "AXIS_Y", "AXIS_Z", TRUE, TRUE), XYVelocity)

\* The left stick is latched and pushed up while the D-pad is held down: Y
\* is the stick's, against the D-pad.
C17_Witness ==
  /\ HasSnapshot
  /\ Modifiers(gamepadState).deadmanXYOnly
  /\ thumbLeftActive
  /\ AxisOf("AXIS_Y") = -ONE
  /\ AxisOf("AXIS_HAT_Y") = ONE
  /\ axisInstructions.move_y_axis = XYVelocity

\* The step is a 'use' event of the D-pad axis n that stores a snapshot
\* under deadmanZOnly.
DpadEventZ(n) ==
  /\ lastOp' = "use"
  /\ lastId' = n
  /\ Modifiers(gamepadState').deadmanZOnly

\* The calls of the step are one creep of z on Z alone.
CreepsZ(z) ==
  /\ Len(calls') = 1
  /\ calls'[1].op = "moveGantryJogToXYZ"
  /\ calls'[1].x = 0
  /\ calls'[1].y = 0
  /\ calls'[1].z = z

\* C18: under deadmanZOnly the D-pad drives Z alone: X and Y are 0, and Z
\* is AXIS_HAT_X at the low Z velocity when AXIS_HAT_X is non-zero, else
\* AXIS_HAT_Y, inverted, at the medium Z velocity.  An event of AXIS_HAT_X
\* away from rest creeps Z by it; an event of AXIS_HAT_Y away from rest
\* creeps Z only when AXIS_HAT_X is 0, and with AXIS_HAT_X non-zero it
\* makes no call and leaves Z as it was.
C18_HatXWinsOnZ ==
  [][/\ (lastOp' = "use" /\ Modifiers(gamepadState').deadmanZOnly) =>
          /\ axisInstructions'.move_x_axis = 0
          /\ axisInstructions'.move_y_axis = 0
          /\ axisInstructions'.move_z_axis =
               IF gamepadState'.axisStates["AXIS_HAT_X"] # 0
               THEN Times(gamepadState'.axisStates["AXIS_HAT_X"], VZ_LOW)
               ELSE -Times(gamepadState'.axisStates["AXIS_HAT_Y"], VZ_MED)
     /\ (DpadEventZ("AXIS_HAT_X") /\ gamepadState'.axisStates["AXIS_HAT_X"] # 0) =>
          CreepsZ(Times(gamepadState'.axisStates["AXIS_HAT_X"], CZ_LOW))
     /\ (DpadEventZ("AXIS_HAT_Y") /\ gamepadState'.axisStates["AXIS_HAT_Y"] # 0
           /\ gamepadState'.axisStates["AXIS_HAT_X"] = 0) =>
          CreepsZ(-Times(gamepadState'.axisStates["AXIS_HAT_Y"], CZ_MED))
     /\ (DpadEventZ("AXIS_HAT_Y") /\ gamepadState'.axisStates["AXIS_HAT_X"] # 0) =>
          /\ calls' = <<>>
          /\ axisInstructions'.move_z_axis = axisInstructions.move_z_axis
    ]_vars

\* AXIS_HAT_Y has been pushed under deadmanZOnly while AXIS_HAT_X is held
\* the other way: no creep, and Z is that of AXIS_HAT_X.
C18_Witness ==
  /\ lastOp = "use"
  /\ lastId = "AXIS_HAT_Y"
  /\ Modifiers(gamepadState).deadmanZOnly
  /\ AxisOf("AXIS_HAT_X") = -ONE
  /\ AxisOf("AXIS_HAT_Y") = -ONE
  /\ calls = <<>>
  /\ axisInstructions.move_z_axis = -VZ_LOW

\* ------------------------------------------------------------------------
\* The probe record.
\* ------------------------------------------------------------------------
\* The subscriber of 'serialport:read' handles the line delivered.
ReadStep == inbox # <<>> /\ lastOp' = "serialport:read"

Line == inbox[1]

\* The character before the closing bracket of a report.
FlagOf(data) == data[Len(data) - 1]

\* The reports in the exact format: three coordinates as Grbl prints them.
ExactFieldLists == [1..3 -> {c.text : c \in CoordinateTexts}]

ExactReports ==
  {ReportLine(fields, flag) : fields \in ExactFieldLists, flag \in FlagChars}

ValueOf(text) == (CHOOSE c \in CoordinateTexts : c.text = text).value

\* The coordinates an exact report states.
Declared ==
  [data \in ExactReports |->
     LET fields == CHOOSE f \in ExactFieldLists :
                     \E flag \in FlagChars : data = ReportLine(f, flag)
     IN  <<ValueOf(fields[1]), ValueOf(fields[2]), ValueOf(fields[3])>>]

Coords(rec) == <<rec.x, rec.y, rec.z>>

\* C19 (as stated): the record becomes successful only by a report in the
\* exact format with flag 1, whose coordinates it then holds; a report with
\* flag 0 leaves the whole record as it was; a successful record stays
\* successful.
C19_RecordedOnlyByFlagOne ==
  [][ReadStep =>
       /\ (~zProbeRecord.success /\ zProbeRecord'.success) =>
             /\ Line \in ExactReports
             /\ FlagOf(Line) = "1"
             /\ Coords(zProbeRecord') = Declared[Line]
       /\ (Line \in Reports /\ FlagOf(Line) = "0") => zProbeRecord' = zProbeRecord
       /\ zProbeRecord.success => zProbeRecord'.success]_vars

\* C19 (amended): the record follows the last report.  It becomes
\* successful only by a report "[PRB:" ... ":" digit "]" whose flag is not
\* 0, and stops being successful only by such a report with flag 0; after
\* any report success is (flag # 0), and after a report in the exact format
\* the record holds that report's coordinates, whatever its flag.
C19_RecordFollowsLastReport ==
  [][ReadStep =>
       /\ (~zProbeRecord.success /\ zProbeRecord'.success) =>
             (Line \in Reports /\ FlagOf(Line) # "0")
       /\ (zProbeRecord.success /\ ~zProbeRecord'.success) =>
             (Line \in Reports /\ FlagOf(Line) = "0")
       /\ Line \in Reports => zProbeRecord'.success = (FlagOf(Line) # "0")
       /\ Line \in ExactReports => Coords(zProbeRecord') = Declared[Line]]_vars

\* A report with flag 0 has been handled and the record holds its
\* coordinates.
C19_Witness ==
  /\ lastOp = "serialport:read"
  /\ ~zProbeRecord.success
  /\ Coords(zProbeRecord) = <<1000, 2000, 0 - 3000>>

\* C20 (as stated): a line that is not a complete report (three numeric
\* coordinates and a flag in the bracketed format) leaves x, y, z and
\* success as they were, and no coordinate of the record is ever NaN.
C20_MalformedLeavesRecord ==
  [][ReadStep =>
       /\ Line \notin ExactReports => zProbeRecord' = zProbeRecord
       /\ NaN \notin {zProbeRecord'.x, zProbeRecord'.y, zProbeRecord'.z}]_vars

\* ------------------------------------------------------------------------
\* The actions map.
\* ------------------------------------------------------------------------
UseStep == lastOp' = "use"

Discrete(cs) == SelectSeq(cs, LAMBDA c : c.op # "moveGantryJogToXYZ")

\* The (trigger, condition) pair performTask is called with in this step.
ConditionNow == Condition(Modifiers(gamepadState'))

TriggerNow == Trigger(lastId', gamepadState', ConditionNow)

PairsNow == {<<TriggerNow, ConditionNow>>}

Configured(p) ==
  /\ p[1] \in DOMAIN options.actionsMap
  /\ p[2] \in DOMAIN options.actionsMap[p[1]]

EntriesOf(p) == {options.actionsMap[p[1]][p[2]]}

EntryNames(e) == {IF e.list THEN e.items[1] ELSE e.task}

EntryParams(e) == IF e.list THEN Tail(e.items) ELSE <<>>

\* The operations whose name is `name` but for the case of its letters.
Named(name) ==
  {TaskCases[k].op : k \in {j \in 1..Len(TaskCases) :
                              ToLowerCase(TaskCases[j].name) = name}}

NamedBy(e) == UNION {Named(lower) : lower \in {ToLowerCase(name) : name \in EntryNames(e)}}

\* The call of the operation op with the parameters of the entry e.
Invocation(op, e) ==
  IF op = "spindleOn"
  THEN [op |-> op, x |-> 0, y |-> 0, z |-> 0, mmPerMin |-> 0,
        speed |-> IF EntryParams(e) = <<>> THEN 0 - 1 ELSE EntryParams(e)[1]]
  ELSE [op |-> op, x |-> 0, y |-> 0, z |-> 0, mmPerMin |-> 0]

\* C21: in an event whose (trigger, condition) pair has an entry in the
\* actions map, exactly the operation the entry names (whatever the case of
\* its letters) is invoked, with the entry's parameters, and no other; in an
\* event whose pair has no entry, no operation is invoked.
C21_EntryInvokesNamedMethod ==
  [][UseStep =>
       \A p \in PairsNow :
         IF Configured(p)
         THEN \A e \in EntriesOf(p) : \A op \in NamedBy(e) :
                Discrete(calls') = <<Invocation(op, e)>>
         ELSE Discrete(calls') = <<>>]_vars

\* C22: an event whose entry names no known operation invokes no operation,
\* leaves the latches, the snapshot and the pending vector as the event
\* alone sets them, and leaves the process running.
C22_UnknownDirectiveIgnored ==
  [][UseStep =>
       \A p \in PairsNow : Configured(p) =>
         \A e \in EntriesOf(p) : (EntryNames(e) # {<<>>} /\ NamedBy(e) = {}) =>
           /\ Discrete(calls') = <<>>
           /\ process' = process
           /\ Running'
           /\ gamepadState' = pad'
           /\ Latches(thumbLeftActive', thumbRightActive')
                = LatchesAfter(lastId', pad', Modifiers(pad'),
                               Latches(thumbLeftActive, thumbRightActive))
           /\ axisInstructions'
                = AxisVector(pad', Modifiers(pad'),
                             Latches(thumbLeftActive', thumbRightActive'))]_vars

\* An unknown name has been looked up for a pressed button.
C22_Witness ==
  /\ lastOp = "use"
  /\ lastId = "KEYCODE_BUTTON_A"
  /\ gamepadState.buttonStates["KEYCODE_BUTTON_A"] = 1
  /\ Modifiers(gamepadState).unmodified
  /\ "KEYCODE_BUTTON_A" \in DOMAIN options.actionsMap
  /\ options.actionsMap["KEYCODE_BUTTON_A"]["unmodified"].list
  /\ options.actionsMap["KEYCODE_BUTTON_A"]["unmodified"].items[1] = <<"f", "o", "o">>
  /\ calls = <<>>
  /\ Running

\* C23: an entry that is a bare directive name is dispatched without error
\* for every known directive: the operation it names is invoked and the
\* process keeps running.
C23_BareNameDispatched ==
  [][UseStep =>
       \A p \in PairsNow : Configured(p) =>
         \A e \in EntriesOf(p) : (~e.list /\ NamedBy(e) # {}) =>
           /\ Running'
           /\ \E op \in NamedBy(e) : \E i \in 1..Len(calls') : calls'[i].op = op]_vars

\* ------------------------------------------------------------------------
\* The fixed table.
\* ------------------------------------------------------------------------
\* C24: a logical event makes at most one call in total, a discrete command
\* or a creep jog and never both.
C24_OneCallPerEvent ==
  lastOp = "use" =>
    /\ Len(calls) <= 1
    /\ Len(Discrete(calls)) <= 1
    /\ Len(calls) - Len(Discrete(calls)) <= 1
    /\ ~(JogCalled /\ Discrete(calls) # <<>>)

\* An event has made a discrete command while a creep was possible: the
\* D-pad is held and shift is pressed.
C24_Witness ==
  /\ lastOp = "use"
  /\ Len(calls) = 1
  /\ calls[1].op = "controllerCyclestart"
  /\ gamepadState.axisStates["AXIS_HAT_X"] # 0

\* The operation of a button or D-pad edge under a condition.
TableOps ==
  {<<"KEYCODE_BUTTON_A", "unmodified", "controllerStart">>,
   <<"KEYCODE_BUTTON_B", "unmodified", "controllerStop">>,
   <<"KEYCODE_BUTTON_X", "unmodified", "controllerResume">>,
   <<"KEYCODE_BUTTON_Y", "unmodified", "controllerPause">>,
   <<"KEYCODE_BUTTON_A", "deadmanXYOnly", "moveGantryReturn">>,
   <<"KEYCODE_BUTTON_B", "deadmanXYOnly", "moveGantryZProbePos">>,
   <<"KEYCODE_BUTTON_X", "deadmanXYOnly", "moveGantryWCSHome">>,
   <<"KEYCODE_BUTTON_Y", "deadmanXYOnly", "moveGantryHome">>,
   <<"KEYCODE_BUTTON_START", "shiftKeyOnly", "controllerCyclestart">>,
   <<"KEYCODE_BUTTON_START", "unmodified", "controllerFeedhold">>,
   <<"KEYCODE_BACK", "shiftKeyOnly", "controllerReset">>,
   <<"KEYCODE_BACK", "unmodified", "controllerUnlock">>,
   <<"AXIS_HAT_X_MINUS", "shiftKeyOnly", "recordGantryZeroWCSX">>,
   <<"AXIS_HAT_X_PLUS", "shiftKeyOnly", "recordGantryZeroWCSY">>,
   <<"AXIS_HAT_Y_MINUS", "shiftKeyOnly", "recordGantryZeroWCSZ">>,
   <<"AXIS_HAT_Y_PLUS", "shiftKeyOnly", "performZProbing">>}

\* The conditions that hold of a snapshot, by name.
ConditionsOf(state) ==
  {c \in {"unmodified", "shiftKeyOnly", "deadmanXYOnly", "deadmanZOnly"} :
     Modifiers(state)[c]}

\* The button pressed or the D-pad edge made by the event id with the
\* snapshot state, if any.
PressedBy(id, state) ==
  IF id \in HatAxes
  THEN (IF state.axisStates[id] = ONE
        THEN {IF id = "AXIS_HAT_X" THEN "AXIS_HAT_X_PLUS" ELSE "AXIS_HAT_Y_PLUS"}
        ELSE IF state.axisStates[id] = -ONE
        THEN {IF id = "AXIS_HAT_X" THEN "AXIS_HAT_X_MINUS" ELSE "AXIS_HAT_Y_MINUS"}
        ELSE {})
  ELSE IF id \in ButtonNames /\ state.buttonStates[id] # 0 THEN {id}
  ELSE {}

\* The event's button or edge whether pressed or released.
ButtonOf(id, state) ==
  IF id \in HatAxes THEN PressedBy(id, state) ELSE {id}

\* C25: with no override, a press of a button or D-pad edge under a
\* condition of the table calls the operation of the table and nothing
\* else, and an operation of the table is called only in an event of a
\* (button, condition) pair the table gives that operation to.
C25_FixedTable ==
  [][UseStep =>
       /\ \A t \in TableOps :
            (t[1] \in PressedBy(lastId', gamepadState') /\ t[2] \in ConditionsOf(gamepadState'))
              => calls' = <<Call(t[3])>>
       /\ \A i \in 1..Len(calls') :
            calls'[i].op \in {t[3] : t \in TableOps} =>
              \E t \in TableOps :
                /\ t[3] = calls'[i].op
                /\ t[1] \in ButtonOf(lastId', gamepadState')
                /\ t[2] \in ConditionsOf(gamepadState')]_vars

\* Button B has been pressed under the slow deadman.
C25_Witness ==
  /\ lastOp = "use"
  /\ lastId = "KEYCODE_BUTTON_B"
  /\ gamepadState.buttonStates["KEYCODE_BUTTON_B"] = 1
  /\ Modifiers(gamepadState).deadmanXYOnly
  /\ calls = <<Call("moveGantryZProbePos")>>

\* ------------------------------------------------------------------------
\* Startup.
\* ------------------------------------------------------------------------
\* The dialect names of each program's switch.
BuiltInDialects(program) ==
  IF program = "part_002" THEN {Grbl, Marlin, Shapeoko} ELSE {Grbl, Marlin}

\* C26: once startup has run with a controller type that is not a built-in
\* dialect, whatever the case of its letters, the process has exited with a
\* status other than 0, no sender has been constructed, no event has been
\* processed and nothing has been sent.
C26_UnknownDialectFatal ==
  (/\ process.phase # "start"
   /\ ToLowerCase(options.controllerType) \notin BuiltInDialects(process.program)) =>
    /\ process.phase = "exited"
    /\ process.status # 0
    /\ process.gcodeSender = "none"
    /\ lastOp = "start"
    /\ ~HasSnapshot
    /\ calls = <<>>
    /\ emitted = <<>>

\* ------------------------------------------------------------------------
\* The transport.
\* ------------------------------------------------------------------------
Connected == ~options.simulate /\ connector.serialConnected

Directives(ms) == SelectSeq(ms, LAMBDA m : m.event = "command")

\* The directives of the probe, the thickness of the touch plate being
\* 20 mm and the offset in thousandths of a millimetre.
ProbeSequence ==
  <<[event |-> "command", directive |-> "gcode", data |-> "G91"],
    [event |-> "command", directive |-> "gcode", data |-> "G38.2 Z-15.001 F120"],
    [event |-> "command", directive |-> "gcode", data |-> "G90"],
    [event |-> "command", directive |-> "gcode", data |-> "G10 L20 P1 Z", z |-> 20001],
    [event |-> "command", directive |-> "gcode", data |-> "G91"],
    [event |-> "command", directive |-> "gcode", data |-> "G0 Z3"],
    [event |-> "command", directive |-> "gcode", data |-> "G90"]>>

\* C27: with the serial port connected, a call of the probe operation emits
\* exactly the sequence G91, G38.2 probe, G90, G10 L20 P1 Z<thickness +
\* 0.001>, G91, G0 Z3, G90 in this order, and every call emits the messages
\* of its operation in the order the operation sends them.
C27_ProbeSequence ==
  [][(Connected /\ calls' # <<>>) =>
       /\ emitted' = AllMessages(process.gcodeSender, calls')
       /\ calls' = <<Call("performProbing")>> => emitted' = ProbeSequence]_vars

C27_Witness ==
  /\ lastOp = "invoke"
  /\ calls = <<Call("performProbing")>>
  /\ emitted = ProbeSequence

\* C28: a directive is emitted only in the step of the operation that sends
\* it and only while the serial port is connected; a call made while it is
\* not connected emits nothing, and no connection event, interval or
\* heartbeat emits the directive of an earlier call.
C28_DroppedNotQueued ==
  [][/\ (~connector.serialConnected) => Directives(emitted') = <<>>
     /\ Directives(emitted') # <<>> =>
          /\ calls' # <<>>
          /\ emitted' = AllMessages(process.gcodeSender, calls')]_vars

\* An operation has been called with the socket open and the serial port
\* not connected, and nothing has been emitted.
C28_Witness ==
  /\ lastOp = "invoke"
  /\ calls = <<Call("controllerStart")>>
  /\ ~options.simulate
  /\ connector.socket = "listening"
  /\ ~connector.serialConnected
  /\ connector.serial.current
  /\ emitted = <<>>

\* C29: in simulate mode nothing is ever emitted on a socket, neither a
\* directive nor a request to open the serial port, and no socket exists.
C29_SimulateEmitsNothing ==
  options.simulate =>
    /\ emitted = <<>>
    /\ connector.socket = "none"
    /\ ~connector.serial.current
    /\ ~connector.serial.leaked

\* In simulate mode, with a controller attached, the heartbeat has called a
\* jog.
C29_Witness ==
  /\ options.simulate
  /\ numDevices = 1
  /\ lastOp = "tick"
  /\ JogCalled
  /\ emitted = <<>>

\* ------------------------------------------------------------------------
\* The pending vector after a send.
\* ------------------------------------------------------------------------
SentByTick == lastOp = "tick" /\ JogCalled

C31_DispatchOnlyOnOwnPress ==
  [][UseStep =>
       (Discrete(calls') # <<>> =>
          /\ lastId' \in CommandButtons \cup HatAxes
          /\ PressedBy(lastId', gamepadState') # {})]_vars

\* ------------------------------------------------------------------------
\* The latches between the events that change them.
\* ------------------------------------------------------------------------
\* The step is a 'use' event that reports a thumb button pressed.
ThumbPress ==
  PressEvent("KEYCODE_BUTTON_THUMBL") \/ PressEvent("KEYCODE_BUTTON_THUMBR")

\* The step is a 'use' event of a D-pad axis under deadmanXYOnly or
\* deadmanZOnly.
DpadJogEvent ==
  /\ lastOp' = "use"
  /\ lastId' \in HatAxes
  /\ JogEnabling(gamepadState')

\* C32 (as stated): a step that is neither a press of a thumb button nor a
\* D-pad event under deadmanXYOnly or deadmanZOnly leaves both latches as
\* they are.
C32_LatchesPersistUnlessJogging ==
  [][(LeftFlips \/ RightFlips) => (ThumbPress \/ DpadJogEvent)]_vars

\* C32: a step that is neither a press of a thumb button nor a D-pad event
\* under a deadman (deadmanXY or deadmanZ, shift held or not) leaves both
\* latches as they are; a heartbeat tick never changes a latch, and under
\* shift alone only a press of a thumb button does.
C32_LatchesPersist ==
  [][/\ (LeftFlips \/ RightFlips) => (ThumbPress \/ DpadOverride)
     /\ (LeftFlips \/ RightFlips) => lastOp' = "use"
     /\ ((LeftFlips \/ RightFlips) /\ Modifiers(gamepadState').shiftKeyOnly)
          => ThumbPress]_vars

\* A stick has moved while shift and a deadman are held and the left latch
\* is enabled: the latch is still enabled.
C32_Witness ==
  /\ lastOp = "use"
  /\ lastId = "AXIS_X"
  /\ gamepadState.axisStates["AXIS_X"] = -ONE
  /\ Modifiers(gamepadState).shiftKey
  /\ Modifiers(gamepadState).deadmanXY
  /\ thumbLeftActive

\* ------------------------------------------------------------------------
\* The creep before continuous D-pad jogging.
\* ------------------------------------------------------------------------
\* The D-pad axes the pending vector comes from.
JoggingHats ==
  LET a == gamepadState.axisStates
      ai == axisInstructions
  IN  {h \in HatAxes :
         \/ h = "AXIS_HAT_X" /\ ai.move_x_axis # 0 /\ DpadDrives("move_x_axis")
         \/ h = "AXIS_HAT_Y" /\ ai.move_y_axis # 0 /\ DpadDrives("move_y_axis")
         \/ /\ ai.move_z_axis # 0
            /\ IF a["AXIS_HAT_X"] # 0 THEN h = "AXIS_HAT_X" ELSE h = "AXIS_HAT_Y"}

\* C33 (as stated): when the heartbeat sends a jog whose vector comes from a
\* D-pad axis, the present hold of that axis began with a creep, whatever
\* the order in which the deadman and the D-pad were pressed.
C33_CreepBeforeContinuous ==
  (lastOp = "tick" /\ JogCalled) => JoggingHats \subseteq hold.crept

\* C33: when the heartbeat sends a jog whose vector comes from a D-pad axis
\* and the present hold of that axis began under a condition in which the
\* axis moves the gantry, the hold began with a creep; and the event of a
\* creep leaves the creep interval as the only pending timeout.  A hold
\* that began under no such condition has no creep: the continuous jog
\* begins with the heartbeat that follows the deadman.
C33_CreepWhenHoldBeginsEnabled ==
  /\ (lastOp = "tick" /\ JogCalled) =>
       \A h \in JoggingHats : h \in hold.enabled => h \in hold.crept
  /\ hold.enabled \subseteq hold.crept
  /\ (lastOp = "use" /\ JogCalled) =>
       /\ lastId \in hold.crept
       /\ Pending(timers) = {jogTimer}
       /\ timers[jogTimer] = CREEP_INTERVAL

\* The D-pad was pressed before the deadman: the heartbeat has sent a jog
\* along X in a hold that began with no creep.
C33_Witness ==
  /\ lastOp = "tick"
  /\ JogCalled
  /\ calls[1].x # 0
  /\ "AXIS_HAT_X" \in JoggingHats
  /\ "AXIS_HAT_X" \notin hold.crept
  /\ "AXIS_HAT_X" \notin hold.enabled

\* ------------------------------------------------------------------------
\* The connection while no controller is attached, and the retry timer.
\* ------------------------------------------------------------------------
\* C34: whenever no controller is attached, no socket is open (none was
\* made or the last one has been destroyed), no interval of openSerial is
\* running and serialConnected is false.
C34_IdleWithoutController ==
  numDevices = 0 =>
    /\ connector.socket \in {"none", "destroyed"}
    /\ ~connector.serial.current
    /\ ~connector.serial.leaked
    /\ ~connector.serialConnected

\* The requests to open the serial port among the messages ms.
OpenRequests(ms) == SelectSeq(ms, LAMBDA m : m.event = "open")

\* C35: no more than one interval of openSerial runs at a time, and while
\* serialConnected is set (from 'serialport:open' to the next
\* 'serialport:close' or 'serialport:error') no request to open the serial
\* port is emitted.
C35_OneRetryTimer ==
  [][/\ ~(connector'.serial.current /\ connector'.serial.leaked)
     /\ connector.serialConnected => OpenRequests(emitted') = <<>>]_vars


\* The operations that travel across the table.
TravelOperations ==
  {"moveGantryHome", "moveGantryReturn", "moveGantryWCSHome", "moveGantryZProbePos"}

\* A move to Z = ZSAFEPOS in machine coordinates, in either wording.
IsSafeZMove(m) == m \in {SafeZ, Gcode("G53 G0 G90 Z-5")}

\* C36: each gantry travel operation (moveGantryHome, moveGantryReturn,
\* moveGantryWCSHome, moveGantryZProbePos), in the base sender and in every
\* dialect, sends a machine-coordinate move to ZSAFEPOS as its first
\* directive.
C36_SafeZFirst ==
  [][(/\ lastOp' = "invoke"
      /\ calls'[1].op \in TravelOperations
      /\ emitted' # <<>>) => IsSafeZMove(emitted'[1])]_vars

\* The message selects relative distances: G91 alone or with a move.
Relative(m) == "data" \in DOMAIN m /\ m.data \in {"G91", "G91 G0"}

\* The message selects absolute distances: G90 alone or with a move.
Absolute(m) ==
  /\ "data" \in DOMAIN m
  /\ m.data \in {"G90", "G0 G90 G54 X0 Y0", "G0 G90 G55 X0 Y0",
                 "G53 G0 G90 Zundefined", "G54 G0 G90 X Y"}

\* C37: distance mode is always restored.  In every dialect, each G91 an
\* operation or the probe-success handler of GcodeShapeoko sends is
\* followed, in the messages of the same step, by a G90, and the last
\* message of such a step is the G90 itself: the last distance-mode
\* directive sent is never G91.
C37_DistanceModeRestored ==
  [][\A i \in 1..Len(emitted') :
       Relative(emitted'[i]) =>
         /\ \E j \in (i + 1)..Len(emitted') : Absolute(emitted'[j])
         /\ emitted'[Len(emitted')] = Gcode("G90")]_vars

\* The probe-success handler has sent its four messages, from G91 to G90,
\* on the open serial port.
C37_Witness ==
  /\ lastOp = "serialport:read"
  /\ process.gcodeSender = "GcodeShapeoko"
  /\ Len(emitted) = 4
  /\ Relative(emitted[1])
  /\ emitted[4] = Gcode("G90")

\* moveGantryZProbePos of GcodeShapeoko has been called in this step.
ZProbeMove ==
  /\ process.gcodeSender = "GcodeShapeoko"
  /\ lastOp' = "invoke"
  /\ calls'[1].op = "moveGantryZProbePos"

\* C38: in GcodeShapeoko, moveGantryZProbePos sends nothing unless the
\* report parsed last was successful, and the X and Y it sends are the
\* coordinates of that report.  The record is written only by the reading
\* of a report and then holds that report's flag and coordinates; the
\* operation sends only when the record is successful, and then the
\* record's x and y.
C38_MovesToLastProbe ==
  [][/\ ZProbeMove /\ emitted' # <<>> =>
          /\ zProbeRecord.success
          /\ Len(emitted') = 2
          /\ emitted'[2].data = "G54 G0 G90 X Y"
          /\ <<emitted'[2].x, emitted'[2].y>> = <<zProbeRecord.x, zProbeRecord.y>>
     /\ ZProbeMove /\ ~zProbeRecord.success => emitted' = <<>>
     /\ ReadStep /\ Line \in ExactReports =>
          /\ zProbeRecord'.success = (FlagOf(Line) # "0")
          /\ Coords(zProbeRecord') = Declared[Line]
     /\ ReadStep /\ ~isValidString(Line) => zProbeRecord' = zProbeRecord
     /\ ~ReadStep => zProbeRecord' = zProbeRecord]_vars

\* The move to the place of the second report, X2 Y1, has been sent.
C38_Witness ==
  /\ lastOp = "invoke"
  /\ process.gcodeSender = "GcodeShapeoko"
  /\ calls[1].op = "moveGantryZProbePos"
  /\ Len(emitted) = 2
  /\ <<emitted[2].x, emitted[2].y>> = <<2000, 1000>>
  /\ Coords(zProbeRecord) = <<2000, 1000, 0 - 3000>>

\* C39: the pending jog vector never has a non-zero Z together with a
\* non-zero X or Y, and no jog call (a creep or a heartbeat's) moves Z
\* together with X or Y.
C39_ZNeverWithXY ==
  /\ axisInstructions.move_z_axis # 0 =>
       axisInstructions.move_x_axis = 0 /\ axisInstructions.move_y_axis = 0
  /\ \A i \in 1..Len(calls) :
       (calls[i].op = "moveGantryJogToXYZ" /\ calls[i].z # 0) =>
          calls[i].x = 0 /\ calls[i].y = 0

\* A D-pad event under the Z deadman has crept along Z and left a Z vector
\* pending, X and Y at rest.
C39_Witness ==
  /\ lastOp = "use"
  /\ Len(calls) = 1
  /\ calls[1].op = "moveGantryJogToXYZ"
  /\ calls[1].z # 0
  /\ axisInstructions.move_z_axis # 0
  /\ axisInstructions.move_x_axis = 0
  /\ axisInstructions.move_y_axis = 0
====
